---- MODULE Spec2Model ----
(***************************************************************************)
(* Behaviour model of the aemeath companion core:                          *)
(*   - core/state_machine.py   StateMachine (four-state FSM)               *)
(*   - core/audio_manager.py   AudioManager + _SynthesisWorker             *)
(*   - core/director.py        Director (orchestrator)                     *)
(* Each object is one record-valued variable; each method is an operator   *)
(* from the object's state (and its inputs) to its next state, so that a   *)
(* method that calls another method is the composition of the operators.   *)
(***************************************************************************)
EXTENDS Integers, Sequences, FiniteSets, TLC

VARIABLES
    current_state,   \* StateMachine._current_state
    callbacks,       \* StateMachine._callbacks: which enter/exit handlers exist
    fsm_last,        \* observation of the last StateMachine call
    am,              \* AudioManager: token, sequence counter, heap, player
    worker,          \* _SynthesisWorker (lives in the synthesis thread)
    mainQ,           \* audio_ready events queued to the main thread
    obs,             \* what is remembered of the last call on the main thread
    director,        \* Director: its fields, its FSM state, its surroundings
    dlast,           \* what is remembered of the last Director operation
    cthread,         \* the screen-commentary thread: its position and locals
    engine,          \* ScriptEngine: pools, _last_played, _last_script_id
    sel,             \* what is remembered of the last ScriptEngine selection
    tr,              \* a time range, an instant and matches_time_range of them
    shadow,          \* the Director of a second run of the same events
    mood,            \* MoodSystem._mood in hundredths, and the last call on it
    detector,        \* PresenceDetector._face_absent_count, and the last call
    scheduler,       \* ResourceScheduler._last_dialog_at, and the last call
    monitor,         \* IdleMonitor: _state, the poll loop and a reset_to_standby call
    invasion,        \* IdleInvasionController: its state, grid and particle bookkeeping
    commentator,     \* ScreenCommentator: the active session id and the sessions running
    inbox            \* signals of the IdleMonitor queued to the main thread, and a reset owed

fsmVars == <<current_state, callbacks, fsm_last>>
audioVars == <<am, worker, mainQ, obs>>
dirVars == <<director, dlast>>
scriptVars == <<engine, sel, tr>>
partVars == <<shadow, mood, detector, scheduler, monitor, invasion, commentator, inbox>>
vars == <<fsmVars, audioVars, dirVars, cthread, scriptVars, partVars>>

\* Bounds of the model.
MaxReq == 4        \* accepted requests when no TTS backend is installed
MaxReqTts == 2     \* accepted requests when the synthesis worker is in use
MaxToken == 2      \* token bumps
MaxCommentaryCalls == 2   \* AudioManager calls of the commentary thread
MaxAbsent == 31    \* consecutive observations without a face
MaxNow == 12       \* the latest clock reading, in minutes
MaxEmitted == 3    \* signals followed between two resets of the IdleMonitor
MaxInvaders == 2   \* the largest max_invaders of a configuration
MaxSide == 2       \* the most columns, and the most rows, of the grid
MaxPid == 4        \* particle ids handed out
MaxThreads == 2    \* screen-commentary threads alive at a time
MaxInbox == 2      \* signals of the IdleMonitor waiting for the main thread
MaxSession == 6    \* the highest session id handed out

(***************************************************************************)
(* core/state_machine.py                                                   *)
(***************************************************************************)
EntityState == {"HIDDEN", "PEEKING", "ENGAGED", "FLEEING"}

VALID_TRANSITIONS ==
    [s \in EntityState |->
        CASE s = "HIDDEN"  -> {"PEEKING", "ENGAGED"}
          [] s = "PEEKING" -> {"ENGAGED", "FLEEING", "HIDDEN"}
          [] s = "ENGAGED" -> {"FLEEING", "HIDDEN"}
          [] s = "FLEEING" -> {"HIDDEN"}]

\* (s1, s2) is an edge of the adjacency table
InTable(s1, s2) == s2 \in VALID_TRANSITIONS[s1]

\* Mutant of TransitionKind: the membership test is dropped.
TransitionKindNoGuard(cur, new) ==
    IF new = cur THEN "same" ELSE "legal"

\* The three ways transition_to can go (lines 53-58).
TransitionKind(cur, new) ==
    IF new = cur THEN "same"
    ELSE IF new \notin VALID_TRANSITIONS[cur] THEN "illegal"
    ELSE "legal"

\* One observable effect of a transition: a callback run or the signal,
\* with the value of _current_state at the moment it happens.
FsmEvent(kind, old, new, cur) ==
    [kind |-> kind, from |-> old, to |-> new, cur |-> cur]

\* Mutant of LegalTransitionEvents: the state is updated only after the
\* enter callback has run.
LegalTransitionEventsLateUpdate(cbs, old, new) ==
    LET cur0 == old
        evExit == IF cbs[old].exit
                  THEN <<FsmEvent("exit", old, new, cur0)>> ELSE <<>>
        evEnter == IF cbs[new].enter
                   THEN <<FsmEvent("enter", old, new, cur0)>> ELSE <<>>
        cur1 == new
    IN  evExit \o evEnter \o <<FsmEvent("state_changed", old, new, cur1)>>

\* Lines 60-74: exit callback, update, enter callback, state_changed.emit.
LegalTransitionEvents(cbs, old, new) ==
    LET cur0 == old
        evExit == IF cbs[old].exit
                  THEN <<FsmEvent("exit", old, new, cur0)>> ELSE <<>>
        cur1 == new
        evEnter == IF cbs[new].enter
                   THEN <<FsmEvent("enter", old, new, cur1)>> ELSE <<>>
    IN  evExit \o evEnter \o <<FsmEvent("state_changed", old, new, cur1)>>


(***************************************************************************)
(* core/audio_manager.py: AudioPriority, AudioManager                      *)
(***************************************************************************)
CRITICAL == 0
HIGH == 1
NORMAL == 2
LOW == 3

\* The priorities of the scale.
PriorityInputs == {CRITICAL, HIGH, NORMAL, LOW}

\* A request resolves to a caller-supplied file that exists ("local"), to a
\* cache file that exists ("cache"), or to neither ("synth").  The text of a
\* request is blank or not; a blank text returns before the other arguments
\* are read.  Priorities below and above the scale are passed as well.
RequestInputs ==
    {<<TRUE, NORMAL, "local", i>> : i \in BOOLEAN}
        \cup {<<FALSE, p, r, i>> : p \in PriorityInputs,
                                  r \in {"local", "cache", "synth"},
                                  i \in BOOLEAN}
        \cup {<<FALSE, CRITICAL - 1, "cache", FALSE>>,
              <<FALSE, LOW + 1, "cache", FALSE>>}

NoItem == [priority |-> -1, order |-> 0, token |-> -1, interrupt |-> FALSE]

\* The arguments of the audio_ready signal (path is identified by order).
Ready(priority, interrupt, token, order) ==
    [priority |-> priority, order |-> order, token |-> token,
     interrupt |-> interrupt]

\* Tuple order of the heap entries: (priority, order, ...).
KeyLess(x, y) ==
    \/ x.priority < y.priority
    \/ (x.priority = y.priority /\ x.order < y.order)

\* Mutant of HeapMin: the entry that arrived first, whatever its priority.
HeapMinFifo(S) ==
    CHOOSE x \in S : \A y \in S \ {x} : x.order < y.order

\* heapq.heappop: the least entry of a non-empty heap.
HeapMin(S) ==
    CHOOSE x \in S : \A y \in S \ {x} : KeyLess(x, y)

\* AudioManager._normalize_priority
normalize_priority(numeric) ==
    IF numeric <= CRITICAL THEN CRITICAL
    ELSE IF numeric >= LOW THEN LOW
    ELSE numeric

\* Messages of the queued signals _tts_enqueue_task, _tts_invalidate, _tts_stop.
EnqueueMsg(task) == [kind |-> "enqueue_task", task |-> task, token |-> task.token]
InvalidateMsg(token) == [kind |-> "invalidate", task |-> NoItem, token |-> token]

\* A signal emitted by the AudioManager during the current operation.
Emit(a, sig) == [a EXCEPT !.emitted = Append(@, sig)]

\* A queued signal to the worker thread.
Post(a, msg) == [a EXCEPT !.to_worker = Append(@, msg)]

current_token(a) == a.token

has_pending_playback(a) == a.playback_heap # {}

can_synthesize(a) == a.edge_tts

\* AudioManager._start_playback: stop, setSource, play, playback_started.
start_playback(a, item) ==
    Emit([a EXCEPT !.playing = TRUE, !.source = item], "playback_started")

\* Mutant of interrupt: the token is never bumped.
interruptNoBump(a, clear_pending_playback, clear_pending_tts) ==
    LET a1 == [a EXCEPT !.playing = FALSE]
        a2 == IF clear_pending_playback
              THEN [a1 EXCEPT !.playback_heap = {}] ELSE a1
    IN  Emit(a2, "playback_finished")

\* Mutant of interrupt: the pending heap is never cleared.
interruptNoClear(a, clear_pending_playback, clear_pending_tts) ==
    LET a1 == [a EXCEPT !.playing = FALSE]
        a3 == IF clear_pending_tts
              THEN Post([a1 EXCEPT !.token = @ + 1], InvalidateMsg(a1.token + 1))
              ELSE a1
    IN  Emit(a3, "playback_finished")

\* AudioManager.interrupt(clear_pending_playback, clear_pending_tts)
interrupt(a, clear_pending_playback, clear_pending_tts) ==
    LET a1 == [a EXCEPT !.playing = FALSE]
        a2 == IF clear_pending_playback
              THEN [a1 EXCEPT !.playback_heap = {}] ELSE a1
        a3 == IF clear_pending_tts
              THEN Post([a2 EXCEPT !.token = @ + 1], InvalidateMsg(a2.token + 1))
              ELSE a2
    IN  Emit(a3, "playback_finished")

\* AudioManager._on_audio_ready from the path.exists() test on (lines
\* 292-306); exists is the outcome of that test.
on_audio_ready_checked(a, msg, exists) ==
    IF ~exists THEN a
    ELSE IF msg.interrupt \/ msg.priority = CRITICAL
    THEN start_playback([a EXCEPT !.playing = FALSE, !.playback_heap = {}], msg)
    ELSE IF a.playing
    THEN [a EXCEPT !.playback_heap = @ \cup {msg}]
    ELSE start_playback(a, msg)

\* AudioManager._on_audio_ready(file_path, priority, interrupt, token, order)
on_audio_ready(a, msg, exists) ==
    IF msg.token # current_token(a) THEN a
    ELSE on_audio_ready_checked(a, msg, exists)

\* Mutant of play_next: stale entries are played like live ones.
play_nextNoTokenCheck(a) ==
    IF a.playback_heap = {} THEN Emit(a, "playback_finished")
    ELSE LET nxt == HeapMin(a.playback_heap)
         IN  start_playback([a EXCEPT !.playback_heap = @ \ {nxt}], nxt)

\* AudioManager._play_next
RECURSIVE play_next(_)
play_next(a) ==
    IF a.playback_heap = {} THEN Emit(a, "playback_finished")
    ELSE LET nxt == HeapMin(a.playback_heap)
             popped == [a EXCEPT !.playback_heap = @ \ {nxt}]
         IN  IF nxt.token = current_token(popped)
             THEN start_playback(popped, nxt)
             ELSE play_next(popped)

\* AudioManager._on_media_status_changed for EndOfMedia / InvalidMedia: the
\* player has left PlayingState when the status is reported.
on_media_status_changed(a) ==
    play_next([a EXCEPT !.playing = FALSE])

\* AudioManager._enqueue_request; blank is "text.strip() is empty", res is
\* how the request resolves.
enqueue_request(a, blank, res, priority, intr) ==
    IF blank THEN a
    ELSE LET a1 == IF intr THEN interrupt(a, TRUE, TRUE) ELSE a
             a2 == [a1 EXCEPT !.task_seq = @ + 1]
             order == a2.task_seq
             token == current_token(a2)
             msg == Ready(priority, intr, token, order)
         IN  IF res \in {"local", "cache"}
             THEN on_audio_ready(a2, msg, TRUE)
             ELSE IF ~can_synthesize(a2) THEN a2
             ELSE Post(a2, EnqueueMsg(msg))

\* Mutant of speak: a LOW request is queued like any other.
speakNoDrop(a, blank, priority, res, intr) ==
    IF blank THEN a
    ELSE LET normalized_priority == normalize_priority(priority)
             should_interrupt == intr \/ normalized_priority = CRITICAL
         IN  enqueue_request(a, blank, res, normalized_priority, should_interrupt)

\* AudioManager.speak(text, priority=..., cached_path=..., interrupt=...)
speak(a, blank, priority, res, intr) ==
    IF blank THEN a
    ELSE LET normalized_priority == normalize_priority(priority)
             should_interrupt == intr \/ normalized_priority = CRITICAL
         IN  IF /\ normalized_priority = LOW
                /\ (a.playing \/ has_pending_playback(a))
             THEN a
             ELSE enqueue_request(a, blank, res, normalized_priority, should_interrupt)

\* AudioManager.play_script(script, priority=..., interrupt=...)
play_script(a, blank, priority, res, intr) ==
    LET normalized_priority == normalize_priority(priority)
        should_interrupt == intr \/ normalized_priority = CRITICAL
    IN  enqueue_request(a, blank, res, normalized_priority, should_interrupt)

(***************************************************************************)
(* core/audio_manager.py: _SynthesisWorker                                 *)
(***************************************************************************)
\* _SynthesisWorker.enqueue_task(payload).  drain_scheduled stands for "at
\* least one QTimer.singleShot(0, _drain_once) is pending": a timer that
\* finds the queue empty returns at once.
worker_enqueue_task(w, task) ==
    IF ~w.running THEN w
    ELSE LET w1 == IF task.token > w.active_token
                   THEN [w EXCEPT !.active_token = task.token, !.queue = {}]
                   ELSE w
         IN  IF task.token < w1.active_token THEN w1
             ELSE [w1 EXCEPT !.queue = @ \cup {task}, !.drain_scheduled = TRUE]

\* Mutant of worker_invalidate: the invalidation is ignored.
worker_invalidateIgnored(w, token) == w

\* _SynthesisWorker.invalidate(token)
worker_invalidate(w, token) ==
    [w EXCEPT !.active_token = IF token > @ THEN token ELSE @,
              !.queue = {}]

\* Mutant of drain_finally: the processing flag is not reset.
drain_finallyStuck(w) ==
    [w EXCEPT !.inflight = NoItem,
              !.drain_scheduled = IF w.queue # {} THEN TRUE ELSE @]

\* The finally clause of _drain_once (lines 127-130).  last remembers how the
\* worker's latest step ended: "cached", "ok", "failed" or "none".
drain_finally(w) ==
    [w EXCEPT !.processing = FALSE,
              !.inflight = NoItem,
              !.drain_scheduled = IF w.queue # {} THEN TRUE ELSE @]

\* Lines 75-84 of _drain_once: what the call does with the popped task.
DrainPick(w) ==
    IF ~w.running \/ w.processing \/ w.queue = {} THEN "return"
    ELSE IF HeapMin(w.queue).token # w.active_token THEN "stale"
    ELSE "work"

(***************************************************************************)
(* AudioManager and worker: initial state and operations                   *)
(***************************************************************************)
AudioInit ==
    /\ am \in {[token |-> 0, task_seq |-> 0, playback_heap |-> {},
                playing |-> FALSE, source |-> NoItem, running |-> TRUE,
                edge_tts |-> e, to_worker |-> <<>>, emitted |-> <<>>,
                in_ready |-> NoItem] : e \in BOOLEAN}
    /\ worker = [running |-> TRUE, processing |-> FALSE, active_token |-> 0,
                 queue |-> {}, drain_scheduled |-> FALSE, inflight |-> NoItem,
                 last |-> "none"]
    /\ mainQ = <<>>
    /\ obs = [op |-> "none", outcome |-> "none", low |-> FALSE,
              intr |-> FALSE, plain |-> TRUE, discarded |-> 0,
              repeat |-> FALSE]

\* What is remembered of the last call or event on the main thread:
\*   low, intr - the request was of LOW priority / asked to interrupt
\*   plain     - so far only speak() calls without interrupt flag and
\*               without CRITICAL priority have been made
\*   discarded - heap entries a media-end event dropped without playing
\*   repeat    - the call is an interrupt() that directly follows an
\*               interrupt() with the same arguments
Observe(op, outcome, keepsPlain, discarded) ==
    [op |-> op, outcome |-> outcome, low |-> FALSE, intr |-> FALSE,
     plain |-> obs.plain /\ keepsPlain,
     discarded |-> discarded,
     repeat |-> (op = "interrupt" /\ obs.op = op /\ obs.outcome = outcome)]

\* The signals of the previous call are forgotten when a call begins.
Fresh(a) == [a EXCEPT !.emitted = <<>>]

InBounds(a) ==
    /\ a.task_seq <= (IF a.edge_tts THEN MaxReqTts ELSE MaxReq)
    /\ a.token <= MaxToken

\* The main thread is between two handlers.
MainIdle == am.in_ready = NoItem

Interrupting(in) == in[4] \/ normalize_priority(in[2]) = CRITICAL

RequestOutcome(a, in) ==
    IF in[1] THEN "blank"
    ELSE IF a.task_seq = am.task_seq THEN "dropped"
    ELSE IF a.playing /\ a.source.order = a.task_seq THEN "started"
    ELSE IF a.to_worker # am.to_worker /\ a.to_worker # <<>>
            /\ a.to_worker[Len(a.to_worker)].kind = "enqueue_task" THEN "awaiting"
    ELSE IF a.playback_heap # {} /\ \E x \in a.playback_heap : x.order = a.task_seq
    THEN "queued"
    ELSE "lost"

ObserveRequest(op, a, in) ==
    [Observe(op, RequestOutcome(a, in),
             op = "speak" /\ ~Interrupting(in), 0)
        EXCEPT !.low = (~in[1] /\ normalize_priority(in[2]) = LOW),
               !.intr = Interrupting(in)]

\* ---- calls and events on the main thread ---------------------------------
SpeakWith(in) ==
    LET a == speak(Fresh(am), in[1], in[2], in[3], in[4])
    IN  /\ MainIdle
        /\ InBounds(a)
        /\ am' = a
        /\ obs' = ObserveRequest("speak", a, in)
        /\ UNCHANGED <<worker, mainQ, fsmVars, dirVars, partVars, cthread, scriptVars>>

Speak == \E in \in RequestInputs : SpeakWith(in)

PlayScriptWith(in) ==
    LET a == play_script(Fresh(am), in[1], in[2], in[3], in[4])
    IN  /\ MainIdle
        /\ InBounds(a)
        /\ am' = a
        /\ obs' = ObserveRequest("play_script", a, in)
        /\ UNCHANGED <<worker, mainQ, fsmVars, dirVars, partVars, cthread, scriptVars>>

PlayScript == \E in \in RequestInputs : PlayScriptWith(in)

InterruptWith(clear_pending_playback, clear_pending_tts) ==
    LET a == interrupt(Fresh(am), clear_pending_playback, clear_pending_tts)
    IN  /\ MainIdle
        /\ InBounds(a)
        /\ am' = a
        /\ obs' = Observe("interrupt",
                          IF clear_pending_playback /\ clear_pending_tts
                          THEN "full" ELSE "partial", FALSE, 0)
        /\ UNCHANGED <<worker, mainQ, fsmVars, dirVars, partVars, cthread, scriptVars>>

Interrupt ==
    \E clear_pending_playback \in BOOLEAN, clear_pending_tts \in BOOLEAN :
        InterruptWith(clear_pending_playback, clear_pending_tts)

\* The queued audio_ready of the worker reaches _on_audio_ready.
DeliverAudioReady ==
    /\ MainIdle
    /\ mainQ # <<>>
    /\ \E exists \in BOOLEAN :
          LET msg == Head(mainQ)
              a == on_audio_ready(Fresh(am), msg, exists)
          IN  /\ am' = a
              /\ obs' = Observe("audio_ready",
                                IF msg.token # am.token THEN "stale"
                                ELSE IF ~exists THEN "missing"
                                ELSE IF a.playing /\ a.source = msg THEN "started"
                                ELSE "queued", TRUE, 0)
    /\ mainQ' = Tail(mainQ)
    /\ UNCHANGED <<worker, fsmVars, dirVars, partVars, cthread, scriptVars>>

\* The player reports EndOfMedia or InvalidMedia for what it plays.
MediaEnd ==
    /\ MainIdle
    /\ am.playing
    /\ LET a == on_media_status_changed(Fresh(am))
       IN  /\ am' = a
           /\ obs' = Observe("media_end", IF a.playing THEN "next" ELSE "idle",
                             TRUE,
                             Cardinality(am.playback_heap)
                                 - Cardinality(a.playback_heap)
                                 - (IF a.playing THEN 1 ELSE 0))
    /\ UNCHANGED <<worker, mainQ, fsmVars, dirVars, partVars, cthread, scriptVars>>

\* ---- the synthesis thread ------------------------------------------------
\* The thread is blocked while a synthesis runs (asyncio.run in _drain_once).
WorkerFree == worker.inflight = NoItem

\* The worker's event loop takes the next queued signal.
WorkerRecv ==
    /\ WorkerFree
    /\ am.to_worker # <<>>
    /\ LET m == Head(am.to_worker)
           w0 == [worker EXCEPT !.last = "none"]
       IN  worker' = IF m.kind = "enqueue_task"
                     THEN worker_enqueue_task(w0, m.task)
                     ELSE worker_invalidate(w0, m.token)
    /\ am' = [am EXCEPT !.to_worker = Tail(@)]
    /\ UNCHANGED <<mainQ, obs, fsmVars, dirVars, partVars, cthread, scriptVars>>

\* A QTimer.singleShot(0, _drain_once) fires: _drain_once up to the point
\* where the synthesis call is entered (cache_hit: the target file exists
\* and the result is emitted without synthesis).
WorkerDrain ==
    /\ WorkerFree
    /\ worker.drain_scheduled
    /\ LET w0 == [worker EXCEPT !.drain_scheduled = FALSE, !.last = "none"]
           pick == DrainPick(w0)
           task == HeapMin(w0.queue)
           w1 == [w0 EXCEPT !.queue = @ \ {task}]
       IN  CASE pick = "return" ->
                  /\ worker' = w0
                  /\ UNCHANGED mainQ
             [] pick = "stale" ->
                  /\ worker' = [w1 EXCEPT !.drain_scheduled = TRUE]
                  /\ UNCHANGED mainQ
             [] pick = "work" ->
                  \E cache_hit \in BOOLEAN :
                      IF cache_hit
                      THEN /\ mainQ' = Append(mainQ, task)
                           /\ worker' = [drain_finally(w1) EXCEPT
                                             !.last = "cached"]
                      ELSE /\ worker' = [w1 EXCEPT !.processing = TRUE,
                                                   !.inflight = task]
                           /\ UNCHANGED mainQ
    /\ UNCHANGED <<am, obs, fsmVars, dirVars, partVars, cthread, scriptVars>>

\* The synthesis call returns (ok) or raises (not ok: the except clause of
\* lines 124-126 swallows the exception); then the finally clause.
WorkerSynthDone ==
    /\ worker.inflight # NoItem
    /\ \E ok \in BOOLEAN :
          /\ mainQ' = IF ok THEN Append(mainQ, worker.inflight) ELSE mainQ
          /\ worker' = [drain_finally(worker) EXCEPT
                           !.last = IF ok THEN "ok" ELSE "failed"]
    /\ UNCHANGED <<am, obs, fsmVars, dirVars, partVars, cthread, scriptVars>>

AudioNext ==
    \/ Speak
    \/ PlayScript
    \/ Interrupt
    \/ DeliverAudioReady
    \/ MediaEnd
    \/ WorkerRecv
    \/ WorkerDrain
    \/ WorkerSynthDone

\* ---- a second caller: the screen-commentary thread ------------------------
\* _on_audio_ready on the main thread up to the path.exists() test: the
\* token comparison of line 290 has passed.
ReadyCheck ==
    /\ MainIdle
    /\ mainQ # <<>>
    /\ Head(mainQ).token = current_token(am)
    /\ am' = [Fresh(am) EXCEPT !.in_ready = Head(mainQ)]
    /\ mainQ' = Tail(mainQ)
    /\ UNCHANGED <<worker, obs, fsmVars, dirVars, partVars, cthread, scriptVars>>

\* The rest of that _on_audio_ready call (lines 292-306).
ReadyAct ==
    /\ ~MainIdle
    /\ \E exists \in BOOLEAN :
          LET msg == am.in_ready
              a == on_audio_ready_checked([am EXCEPT !.in_ready = NoItem],
                                          msg, exists)
          IN  /\ am' = a
              /\ obs' = Observe("audio_ready",
                                IF ~exists THEN "missing"
                                ELSE IF a.playing /\ a.source = msg THEN "started"
                                ELSE "queued", TRUE, 0)
    /\ UNCHANGED <<worker, mainQ, fsmVars, dirVars, partVars, cthread, scriptVars>>

\* ScreenCommentator.comment_on_screen, running in the thread started by
\* Director.request_screen_commentary, calls interrupt() on the AudioManager
\* whatever the main thread is doing.
CommentaryInterrupt ==
    LET a == interrupt(am, TRUE, TRUE)
    IN  /\ InBounds(a)
        /\ am' = a
        /\ obs' = Observe("commentary_interrupt", "full", FALSE, 0)
        /\ UNCHANGED <<worker, mainQ, fsmVars, dirVars, partVars, cthread, scriptVars>>

RaceNext ==
    \/ AudioNext
    \/ ReadyCheck
    \/ ReadyAct
    \/ CommentaryInterrupt

(***************************************************************************)
(* StateMachine: initial state and operations                              *)
(***************************************************************************)

(***************************************************************************)
(* The screen-commentary thread (Director.request_screen_commentary starts *)
(* it; ScreenCommentator.comment_on_screen runs in it).  It calls          *)
(* AudioManager.interrupt() and AudioManager.speak(text, priority=HIGH)    *)
(* directly.  The AudioManager takes no lock, so the read and the write of *)
(* "self._token += 1" and of "self._task_seq += 1" are separate steps      *)
(* between which the main thread may run.                                  *)
(***************************************************************************)
\*   pc  - "idle": no commentary running; "called": interrupt() is done and
\*         speak() may be called; "token_loaded"/"seq_loaded": the thread has
\*         read the counter and not yet stored it
\*   val - the value read
\*   n   - AudioManager calls the thread has made so far
CommentaryIdle == [pc |-> "idle", val |-> 0, n |-> 0]

\* interrupt(True, True) up to the read of self._token (lines 259-263).
CommentaryInterruptLoad ==
    /\ cthread.pc = "idle"
    /\ cthread.n < MaxCommentaryCalls
    /\ am.token < MaxToken
    /\ am' = [Fresh(am) EXCEPT !.playing = FALSE, !.playback_heap = {}]
    /\ cthread' = [pc |-> "token_loaded", val |-> am.token, n |-> cthread.n + 1]
    /\ UNCHANGED <<worker, mainQ, obs, fsmVars, dirVars, partVars, scriptVars>>

\* The store of self._token, the _tts_invalidate signal and
\* playback_finished (lines 263-265).
CommentaryInterruptStore ==
    /\ cthread.pc = "token_loaded"
    /\ LET a == [Fresh(am) EXCEPT !.token = cthread.val + 1]
       IN  am' = Emit(Post(a, InvalidateMsg(a.token)), "playback_finished")
    /\ cthread' = [cthread EXCEPT !.pc = "called", !.val = 0]
    /\ obs' = Observe("commentary_interrupt", "full", FALSE, 0)
    /\ UNCHANGED <<worker, mainQ, fsmVars, dirVars, partVars, scriptVars>>

\* speak(text, priority=HIGH) up to the read of self._task_seq (line 360).
CommentarySpeakLoad ==
    /\ cthread.pc = "called"
    /\ cthread.n < MaxCommentaryCalls
    /\ am.task_seq < (IF am.edge_tts THEN MaxReqTts ELSE MaxReq)
    /\ cthread' = [pc |-> "seq_loaded", val |-> am.task_seq, n |-> cthread.n + 1]
    /\ UNCHANGED <<audioVars, fsmVars, dirVars, partVars, scriptVars>>

\* The store of self._task_seq and the rest of _enqueue_request (lines
\* 360-398).  The caller is not the AudioManager's thread, so the
\* _audio_ready signal of a cache hit is queued to the main thread.
CommentarySpeakStore ==
    /\ cthread.pc = "seq_loaded"
    /\ \E cache_hit \in BOOLEAN :
          LET a == [Fresh(am) EXCEPT !.task_seq = cthread.val + 1]
              msg == Ready(normalize_priority(HIGH), FALSE,
                           current_token(a), a.task_seq)
          IN  IF cache_hit
              THEN /\ mainQ' = Append(mainQ, msg)
                   /\ am' = a
              ELSE /\ mainQ' = mainQ
                   /\ am' = IF can_synthesize(a) THEN Post(a, EnqueueMsg(msg))
                            ELSE a
    /\ cthread' = [cthread EXCEPT !.pc = "called", !.val = 0]
    /\ obs' = Observe("commentary_speak", "accepted", TRUE, 0)
    /\ UNCHANGED <<worker, fsmVars, dirVars, partVars, scriptVars>>

\* comment_on_screen returns.
CommentaryDone ==
    /\ cthread.pc = "called"
    /\ cthread' = [cthread EXCEPT !.pc = "idle"]
    /\ UNCHANGED <<audioVars, fsmVars, dirVars, partVars, scriptVars>>

\* The two threads that call the AudioManager: the main thread calls speak()
\* (which interrupts when asked to) and receives the audio_ready events,
\* while the synthesis worker's thread is not scheduled and no playback
\* comes to its end.
CommentaryNext ==
    \/ Speak
    \/ DeliverAudioReady
    \/ CommentaryInterruptLoad
    \/ CommentaryInterruptStore
    \/ CommentarySpeakLoad
    \/ CommentarySpeakStore
    \/ CommentaryDone
NoHandlers == [s \in EntityState |-> [enter |-> FALSE, exit |-> FALSE]]

FsmInit ==
    /\ current_state = "HIDDEN"
    /\ callbacks = NoHandlers
    /\ fsm_last = [op |-> "none", from |-> "HIDDEN", to |-> "HIDDEN",
                   ret |-> TRUE, events |-> <<>>]

\* StateMachine.register_state_handler(state, on_enter=..., on_exit=...)
register_state_handler(state, on_enter, on_exit) ==
    /\ callbacks' = [callbacks EXCEPT ![state] =
                        [enter |-> on_enter, exit |-> on_exit]]
    /\ fsm_last' = [op |-> "register_state_handler", from |-> current_state,
                    to |-> state, ret |-> TRUE, events |-> <<>>]
    /\ UNCHANGED <<current_state, audioVars, dirVars, partVars, cthread, scriptVars>>

\* StateMachine.transition_to(new_state) with handlers that only record
\* that they ran (as the handlers of tests/test_state_machine.py do).
transition_to(new_state) ==
    LET kind == TransitionKind(current_state, new_state)
        old_state == current_state
    IN  /\ current_state' = IF kind = "legal" THEN new_state ELSE current_state
        /\ fsm_last' =
             [op |-> "transition_to", from |-> old_state, to |-> new_state,
              ret |-> (kind # "illegal"),
              events |-> IF kind = "legal"
                         THEN LegalTransitionEvents(callbacks, old_state, new_state)
                         ELSE <<>>]
        /\ UNCHANGED <<callbacks, audioVars, dirVars, partVars, cthread, scriptVars>>

FsmRegister ==
    \E s \in EntityState, e \in BOOLEAN, x \in BOOLEAN :
        register_state_handler(s, e, x)

FsmTransition == \E s \in EntityState : transition_to(s)

FsmNext == FsmRegister \/ FsmTransition



(***************************************************************************)
(* core/director.py: Director                                              *)
(* The record d holds the Director's fields, the state of its StateMachine *)
(* (d.state), what the entity window and the audio-output monitor show     *)
(* (window_visible, flee_running, monitor_playing), whether audio the      *)
(* Director asked for is pending or playing (self_audio) and the calls the *)
(* current operation has made on the AudioManager (d.calls).  The          *)
(* environment of a call is the record e:                                  *)
(*   asset - a valid trajectory file and its GIF map exist                 *)
(*   sync  - audio requested in the call resolves and starts at once, so   *)
(*           that playback_started is emitted inside the call              *)
(* d.notes lists the calls the current operation has made on the mood     *)
(* system, the idle monitor (which is bound), the GIF state mapper and the *)
(* auto-dismiss timer, and its attempts at a scripted entrance.  Visual    *)
(* calls and camera tracking are left out.                                 *)
(***************************************************************************)
BehaviorMode == {"IDLE", "BUSY", "MEDIA_PLAYING", "SUMMONING"}

PresenceState == {"PRESENT_ACTIVE", "PRESENT_PASSIVE", "ABSENT", "UNKNOWN"}

\* What a call finds: a scripted-entrance asset, an audio that starts at
\* once, a primary screen.
CallEnv == [asset : BOOLEAN, sync : BOOLEAN, screen : BOOLEAN]

\* A call on a collaborator, recorded in the order the operation makes it.
Note(d, what) == [d EXCEPT !.notes = Append(@, what)]

\* self._auto_dismiss_timer.start(self._auto_dismiss_ms)
start_auto_dismiss_timer(d) ==
    Note([d EXCEPT !.auto_dismiss_active = TRUE],
         "auto_dismiss_timer.start(auto_dismiss_ms)")

\* self._idle_monitor.reset_to_standby()
reset_to_standby(d) == Note(d, "idle_monitor.reset_to_standby")

\* Director._arm_idle_threshold_with_jitter
arm_idle_threshold_with_jitter(d) == Note(d, "arm_idle_threshold_with_jitter")

\* Director._set_behavior_mode
set_behavior_mode(d, mode) == [d EXCEPT !.behavior_mode = mode]

\* A stop that leaves the timer running.
stop_auto_dismiss_timerIgnored(d) == d

\* Director._stop_auto_dismiss_timer
stop_auto_dismiss_timer(d) == [d EXCEPT !.auto_dismiss_active = FALSE]

\* The fallback mode of _on_self_playback_started and _on_audio_output_stopped.
FallbackMode(d) == IF d.state # "HIDDEN" THEN "IDLE" ELSE "BUSY"

\* Director._on_self_playback_started
on_self_playback_started(d) ==
    LET d1 == [d EXCEPT !.self_playback_active = TRUE]
    IN  IF ~d1.audio_output_active THEN d1
        ELSE LET d2 == [d1 EXCEPT !.audio_output_active = FALSE]
             IN  IF d2.behavior_mode = "MEDIA_PLAYING"
                 THEN set_behavior_mode(d2, FallbackMode(d2))
                 ELSE d2

RECURSIVE on_self_playback_finished(_, _)
RECURSIVE director_transition_to(_, _, _)

\* The audio a request asked for starts at once, or is pending.
audio_requested(d, e) ==
    IF e.sync
    THEN on_self_playback_started([d EXCEPT !.self_audio = "playing"])
    ELSE [d EXCEPT !.self_audio = IF @ = "none" THEN "pending" ELSE @]

\* AudioManager.play_script as the Director sees it: the call, the
\* playback_finished of the interrupt it may contain, and the
\* playback_started of an audio that starts at once.
audio_play_script(d, e, priority, intr) ==
    LET d1 == [d EXCEPT !.calls = Append(@, [fn |-> "play_script",
                                             priority |-> priority,
                                             interrupt |-> intr])]
        d2 == IF intr \/ priority = CRITICAL
              THEN on_self_playback_finished([d1 EXCEPT !.self_audio = "none"], e)
              ELSE d1
    IN  audio_requested(d2, e)

\* AudioManager.interrupt() as the Director sees it.
audio_interrupt(d, e) ==
    on_self_playback_finished(
        [d EXCEPT !.self_audio = "none",
                  !.notes = Append(@, "audio_manager.interrupt"),
                  !.calls = Append(@, [fn |-> "interrupt",
                                       priority |-> CRITICAL,
                                       interrupt |-> TRUE])], e)

\* Director._enter_hidden
enter_hidden(d) ==
    [arm_idle_threshold_with_jitter(reset_to_standby(stop_auto_dismiss_timer(d)))
                                EXCEPT !.window_visible = FALSE,
                                       !.silent_presence_mode = FALSE,
                                       !.audio_forced_visible = FALSE,
                                       !.behavior_mode = "BUSY"]

\* Director._enter_engaged.  A script is always found: get_idle_script_for_time
\* falls back to a built-in script.  The ScriptEngine is asked only when no
\* script is pending (lines 428-433).  A hidden window is summoned only if
\* there is a primary screen (lines 436-444).
enter_engaged(d, e) ==
    LET d1 == IF d.pending_idle_script
              THEN [d EXCEPT !.window_visible = @ \/ e.screen]
              ELSE Note([d EXCEPT !.pending_idle_script = TRUE,
                                  !.window_visible = @ \/ e.screen],
                        "script_engine.select_idle_script")
        d2 == IF ~d1.silent_presence_mode /\ d1.behavior_mode # "SUMMONING"
              THEN audio_play_script(Note(d1, "mood_system.on_interacted"),
                                     e, HIGH, FALSE)
              ELSE d1
    IN  start_auto_dismiss_timer(
            [d2 EXCEPT !.behavior_mode = IF @ # "SUMMONING" THEN "IDLE" ELSE @])

\* Director._enter_peeking
enter_peeking(d, e) == enter_engaged(d, e)

\* _on_flee_finished that leaves the FSM where it is.
on_flee_finishedIgnored(d, e) == d

\* Director._on_flee_finished
on_flee_finished(d, e) ==
    IF d.state = "FLEEING" THEN director_transition_to(d, e, "HIDDEN") ELSE d

\* EntityWindow.flee(): flee_completed is emitted at once, inside the call,
\* when the window is not visible and when there is no primary screen
\* (lines 662-675).
flee(d, e) ==
    IF ~d.window_visible \/ ~e.screen
    THEN on_flee_finished([d EXCEPT !.window_visible = FALSE], e)
    ELSE [d EXCEPT !.flee_running = TRUE]

\* Director._enter_fleeing.  A panic script is always found (get_panic_script
\* falls back to a built-in script).
enter_fleeing(d, e) ==
    LET d1 == set_behavior_mode(stop_auto_dismiss_timer(d), "BUSY")
    IN  flee(audio_play_script(d1, e, CRITICAL, TRUE), e)

\* StateMachine.transition_to, line 72: state_changed(old_state, new_state)
\* is emitted; d.emitted keeps the state the FSM is in at that moment.
state_changed_emit(d, old_state, new_state) ==
    [d EXCEPT !.ret = TRUE,
              !.emitted = Append(@, [old |-> old_state, new |-> new_state,
                                     current |-> d.state])]

\* StateMachine.transition_to with the handlers the Director registers in
\* __init__ (lines 167-181).
director_transition_to(d, e, new_state) ==
    LET kind == TransitionKind(d.state, new_state)
        d1 == IF d.state \in {"ENGAGED", "FLEEING"}
              THEN stop_auto_dismiss_timer(d) ELSE d
        d2 == [d1 EXCEPT !.state = new_state]
        d3 == CASE new_state = "HIDDEN" -> enter_hidden(d2)
                [] new_state = "PEEKING" -> enter_peeking(d2, e)
                [] new_state = "ENGAGED" -> enter_engaged(d2, e)
                [] new_state = "FLEEING" -> enter_fleeing(d2, e)
    IN  IF kind = "same" THEN [d EXCEPT !.ret = TRUE]
        ELSE IF kind = "illegal" THEN [d EXCEPT !.ret = FALSE]
        ELSE state_changed_emit(d3, d.state, new_state)

\* A scripted entrance that is attempted and never starts.
try_start_voice_scripted_entranceNeverStarts(d0, e) ==
    LET d == Note(d0, "try_start_voice_scripted_entrance")
    IN  [d EXCEPT !.ret = d.voice_trajectory_playing]

\* Director._try_start_voice_scripted_entrance; d.ret is its result.  Its
\* one caller is summon_now in HIDDEN, where the window is hidden and the
\* auto-dismiss timer stopped already: there a player that fails to start
\* (lines 833-836) leaves what a missing asset leaves, so e.asset also
\* stands for "and the player starts".
try_start_voice_scripted_entrance(d0, e) ==
    LET d == Note(d0, "try_start_voice_scripted_entrance")
    IN
    IF d.voice_trajectory_playing THEN [d EXCEPT !.ret = TRUE]
    ELSE IF ~e.asset THEN [d EXCEPT !.ret = FALSE]
    ELSE [stop_auto_dismiss_timer(d) EXCEPT !.window_visible = FALSE,
                                            !.silent_presence_mode = FALSE,
                                            !.behavior_mode = "SUMMONING",
                                            !.voice_trajectory_playing = TRUE,
                                            !.ret = TRUE]

\* summon_now that is refused while the behaviour mode is MEDIA_PLAYING.
summon_nowModeGated(d, e) ==
    IF d.state = "FLEEING" \/ d.behavior_mode = "MEDIA_PLAYING"
    THEN [d EXCEPT !.ret = FALSE]
    ELSE LET d1 == set_behavior_mode(d, "SUMMONING")
             tried == try_start_voice_scripted_entrance(d1, e)
         IN  CASE d.state = "HIDDEN" ->
                    IF tried.ret THEN tried
                    ELSE director_transition_to(
                             Note([tried EXCEPT !.silent_presence_mode = FALSE],
                                  "gif_state_mapper.on_summoned"),
                             e, "ENGAGED")
               [] d.state = "PEEKING" -> director_transition_to(d1, e, "ENGAGED")
               [] d.state = "ENGAGED" ->
                    [start_auto_dismiss_timer(d1) EXCEPT !.ret = TRUE]

\* summon_now that tries the scripted entrance in ENGAGED as it does in
\* HIDDEN.
summon_nowAlwaysTries(d, e) ==
    IF d.state = "FLEEING" THEN [d EXCEPT !.ret = FALSE]
    ELSE LET d1 == set_behavior_mode(d, "SUMMONING")
             tried == try_start_voice_scripted_entrance(d1, e)
         IN  CASE d.state = "HIDDEN" ->
                    IF tried.ret THEN tried
                    ELSE director_transition_to(
                             Note([tried EXCEPT !.silent_presence_mode = FALSE],
                                  "gif_state_mapper.on_summoned"),
                             e, "ENGAGED")
               [] d.state = "PEEKING" -> director_transition_to(d1, e, "ENGAGED")
               [] d.state = "ENGAGED" ->
                    IF tried.ret THEN tried
                    ELSE [start_auto_dismiss_timer(tried) EXCEPT !.ret = TRUE]

\* Director.summon_now; d.ret is its result.
summon_now(d, e) ==
    IF d.state = "FLEEING" THEN [d EXCEPT !.ret = FALSE]
    ELSE LET d1 == set_behavior_mode(d, "SUMMONING")
             tried == try_start_voice_scripted_entrance(d1, e)
         IN  CASE d.state = "HIDDEN" ->
                    IF tried.ret THEN tried
                    ELSE director_transition_to(
                             Note([tried EXCEPT !.silent_presence_mode = FALSE],
                                  "gif_state_mapper.on_summoned"),
                             e, "ENGAGED")
               [] d.state = "PEEKING" -> director_transition_to(d1, e, "ENGAGED")
               [] d.state = "ENGAGED" ->
                    [start_auto_dismiss_timer(d1) EXCEPT !.ret = TRUE]

\* self._audio_forced_visible = self.summon_now()
forced_visible(s) == [s EXCEPT !.audio_forced_visible = s.ret]

\* Director._on_audio_output_started
on_audio_output_started(d, e) ==
    IF ~d.audio_output_reactive \/ d.self_playback_active THEN d
    ELSE LET d1 == IF d.state = "HIDDEN"
                   THEN forced_visible(summon_now(d, e))
                   ELSE d
         IN  set_behavior_mode([d1 EXCEPT !.audio_output_active = TRUE],
                               "MEDIA_PLAYING")

\* Director._on_self_playback_finished
on_self_playback_finished(d, e) ==
    LET d1 == [d EXCEPT !.self_playback_active = FALSE]
    IN  IF d1.audio_output_reactive /\ d1.monitor_playing
        THEN on_audio_output_started(d1, e)
        ELSE d1

\* Director._on_audio_output_stopped
on_audio_output_stopped(d, e) ==
    IF ~d.audio_output_reactive \/ d.self_playback_active THEN d
    ELSE LET d1 == [d EXCEPT !.audio_output_active = FALSE]
         IN  IF d1.audio_forced_visible /\ d1.state \in {"PEEKING", "ENGAGED"}
             THEN director_transition_to(
                      [d1 EXCEPT !.audio_forced_visible = FALSE], e, "HIDDEN")
             ELSE LET d2 == [d1 EXCEPT !.audio_forced_visible = FALSE]
                  IN  IF d2.behavior_mode = "SUMMONING" THEN d2
                      ELSE set_behavior_mode(d2, FallbackMode(d2))

\* on_user_idle that peeks at the idle user before it engages.
on_user_idlePeeks(d, e, paused, presence) ==
    IF d.voice_trajectory_playing \/ d.state # "HIDDEN" THEN d
    ELSE IF paused THEN arm_idle_threshold_with_jitter(reset_to_standby(d))
    ELSE IF presence \in {"PRESENT_ACTIVE", "ABSENT"}
    THEN arm_idle_threshold_with_jitter(
             reset_to_standby(set_behavior_mode(d, "BUSY")))
    ELSE director_transition_to(
             set_behavior_mode(
                 [d EXCEPT !.silent_presence_mode = (presence = "PRESENT_PASSIVE")],
                 "IDLE"),
             e, "PEEKING")

\* on_user_idle that never marks the cycle as a silent presence.
on_user_idleNeverSilent(d, e, paused, presence) ==
    IF d.voice_trajectory_playing \/ d.state # "HIDDEN" THEN d
    ELSE IF paused THEN arm_idle_threshold_with_jitter(reset_to_standby(d))
    ELSE IF presence \in {"PRESENT_ACTIVE", "ABSENT"}
    THEN arm_idle_threshold_with_jitter(
             reset_to_standby(set_behavior_mode(d, "BUSY")))
    ELSE director_transition_to(
             set_behavior_mode([d EXCEPT !.silent_presence_mode = FALSE], "IDLE"),
             e, "ENGAGED")

\* Director.on_user_idle; paused is "_full_screen_pause and a fullscreen
\* application is running".
on_user_idle(d, e, paused, presence) ==
    IF d.voice_trajectory_playing \/ d.state # "HIDDEN" THEN d
    ELSE IF paused THEN arm_idle_threshold_with_jitter(reset_to_standby(d))
    ELSE IF presence \in {"PRESENT_ACTIVE", "ABSENT"}
    THEN arm_idle_threshold_with_jitter(
             reset_to_standby(set_behavior_mode(d, "BUSY")))
    ELSE director_transition_to(
             set_behavior_mode(
                 [d EXCEPT !.silent_presence_mode = (presence = "PRESENT_PASSIVE")],
                 "IDLE"),
             e, "ENGAGED")

\* on_user_active that flees without the dismissal penalty.
on_user_activeNoPenalty(d, e) ==
    LET d1 == set_behavior_mode(d, "BUSY")
    IN  IF d1.state \in {"PEEKING", "ENGAGED"}
        THEN director_transition_to(d1, e, "FLEEING")
        ELSE reset_to_standby(d1)

\* Director.on_user_active
on_user_active(d, e) ==
    LET d1 == set_behavior_mode(d, "BUSY")
    IN  IF d1.state \in {"PEEKING", "ENGAGED"}
        THEN director_transition_to(Note(d1, "mood_system.on_dismissed"),
                                    e, "FLEEING")
        ELSE reset_to_standby(d1)

\* Director.toggle_visibility
toggle_visibility(d, e) ==
    IF d.state = "HIDDEN" THEN summon_now(d, e)
    ELSE IF d.state \in {"PEEKING", "ENGAGED"} THEN on_user_active(d, e)
    ELSE d

\* _on_auto_dismiss_timeout without its test of the FSM state.
on_auto_dismiss_timeoutAnyState(d, e) ==
    director_transition_to(
        audio_interrupt(Note(d, "mood_system.on_dismissed"), e),
        e, "HIDDEN")

\* Director._on_auto_dismiss_timeout
on_auto_dismiss_timeout(d, e) ==
    IF d.state = "ENGAGED"
    THEN director_transition_to(
             audio_interrupt(Note(d, "mood_system.on_dismissed"), e),
             e, "HIDDEN")
    ELSE d

\* Director._complete_voice_scripted_entrance
complete_voice_scripted_entrance(d, e) ==
    LET d1 == set_behavior_mode(Note(d, "gif_state_mapper.on_summoned"),
                                "SUMMONING")
    IN  CASE d1.state = "FLEEING" -> d1
          [] d1.state \in {"HIDDEN", "PEEKING"} ->
                director_transition_to(d1, e, "ENGAGED")
          [] d1.state = "ENGAGED" -> start_auto_dismiss_timer(d1)

\* The sender of a finished signal: the player of the entrance in progress,
\* or a player started before it.
PlayerObjs == {"current", "older"}

\* _on_voice_trajectory_finished that completes whenever it is called.
on_voice_trajectory_finishedUnguarded(d, e, player_obj) ==
    complete_voice_scripted_entrance(
        [d EXCEPT !.voice_trajectory_playing = FALSE], e)

\* Director._on_voice_trajectory_finished(player_obj), with
\* _cleanup_voice_trajectory_player.  _voice_trajectory_player is set and
\* cleared together with _voice_trajectory_playing (lines 821-822, 860-861),
\* so it is not None on line 590.
on_voice_trajectory_finished(d, e, player_obj) ==
    IF ~d.voice_trajectory_playing THEN d
    ELSE IF player_obj # "current" THEN d
    ELSE complete_voice_scripted_entrance(
             [d EXCEPT !.voice_trajectory_playing = FALSE], e)

\* A timeout handler that leaves the entrance to its finished signal.
on_voice_trajectory_timeoutIgnored(d, e) == d

\* Director._on_voice_trajectory_timeout, with
\* _cleanup_voice_trajectory_player.
on_voice_trajectory_timeout(d, e) ==
    IF ~d.voice_trajectory_playing THEN d
    ELSE complete_voice_scripted_entrance(
             [d EXCEPT !.voice_trajectory_playing = FALSE], e)

(***************************************************************************)
(* Director: initial state and operations                                  *)
(***************************************************************************)
\* The handlers registered in Director.__init__.
DirectorHandlers ==
    [s \in EntityState |->
        [enter |-> TRUE, exit |-> s \in {"ENGAGED", "FLEEING"}]]

\* The Director after __init__; r is the audio_output_reactive setting.
DirectorNew(r) ==
    [state |-> "HIDDEN", behavior_mode |-> "BUSY",
     silent_presence_mode |-> FALSE,
     pending_idle_script |-> FALSE,
     voice_trajectory_playing |-> FALSE,
     audio_output_active |-> FALSE,
     audio_forced_visible |-> FALSE,
     self_playback_active |-> FALSE,
     auto_dismiss_active |-> FALSE,
     audio_output_reactive |-> r,
     window_visible |-> FALSE, flee_running |-> FALSE,
     monitor_playing |-> FALSE, self_audio |-> "none",
     calls |-> <<>>, notes |-> <<>>, emitted |-> <<>>, ret |-> TRUE]

DirInit ==
    /\ director \in {DirectorNew(r) : r \in BOOLEAN}
    /\ dlast = [op |-> "none", from |-> "HIDDEN", asset |-> FALSE,
                traj |-> FALSE, ret |-> TRUE, paused |-> FALSE,
                presence |-> "UNKNOWN", player |-> "current"]

\* The record an operation starts from: nothing called yet.
CalledOf(d) ==
    [d EXCEPT !.calls = <<>>, !.notes = <<>>, !.emitted = <<>>, !.ret = TRUE]

Called == CalledOf(director)

\* The operation op, called in environment e, leaves the Director as d;
\* paused and presence are what on_user_idle finds, player_obj is the sender
\* of a finished signal (they matter to no other operation).
DirectorStepSignal(op, e, d, paused, presence, player_obj) ==
    /\ director' = d
    /\ current_state' = director'.state
    /\ dlast' = [op |-> op, from |-> director.state, asset |-> e.asset,
                 traj |-> director.voice_trajectory_playing,
                 ret |-> director'.ret,
                 paused |-> paused, presence |-> presence,
                 player |-> player_obj]
    /\ UNCHANGED <<callbacks, fsm_last, audioVars, cthread, scriptVars,
                   partVars>>

DirectorStepFinding(op, e, d, paused, presence) ==
    DirectorStepSignal(op, e, d, paused, presence, "current")

DirectorStep(op, e, d) == DirectorStepFinding(op, e, d, FALSE, "UNKNOWN")

OnUserIdle ==
    \E e \in CallEnv, paused \in BOOLEAN, presence \in PresenceState :
        DirectorStepFinding("on_user_idle", e,
                            on_user_idle(Called, e, paused, presence),
                            paused, presence)

OnUserActive ==
    \E e \in CallEnv : DirectorStep("on_user_active", e, on_user_active(Called, e))

SummonNow ==
    \E e \in CallEnv : DirectorStep("summon_now", e, summon_now(Called, e))

ToggleVisibility ==
    \E e \in CallEnv :
        DirectorStep("toggle_visibility", e, toggle_visibility(Called, e))

\* The audio-output monitor detects that some application plays sound.
AudioOutputStarted ==
    /\ ~director.monitor_playing
    /\ \E e \in CallEnv :
          DirectorStep("on_audio_output_started", e,
              on_audio_output_started([Called EXCEPT !.monitor_playing = TRUE], e))

AudioOutputStopped ==
    /\ director.monitor_playing
    /\ \E e \in CallEnv :
          DirectorStep("on_audio_output_stopped", e,
              on_audio_output_stopped([Called EXCEPT !.monitor_playing = FALSE], e))

\* Audio the Director asked for starts playing after its synthesis.
SelfPlaybackStarted ==
    /\ director.self_audio = "pending"
    /\ \E e \in CallEnv :
          DirectorStep("on_self_playback_started", e,
              on_self_playback_started([Called EXCEPT !.self_audio = "playing"]))

\* The audio ends and nothing else is pending in the AudioManager.
SelfPlaybackFinished ==
    /\ director.self_audio = "playing"
    /\ \E e \in CallEnv :
          DirectorStep("on_self_playback_finished", e,
              on_self_playback_finished([Called EXCEPT !.self_audio = "none"], e))

\* The single-shot auto-dismiss timer fires.
AutoDismissTimeout ==
    /\ director.auto_dismiss_active
    /\ \E e \in CallEnv :
          DirectorStep("on_auto_dismiss_timeout", e,
              on_auto_dismiss_timeout(
                  [Called EXCEPT !.auto_dismiss_active = FALSE], e))

\* The flee animation of the entity window ends.
FleeFinished ==
    /\ director.flee_running
    /\ \E e \in CallEnv :
          DirectorStep("on_flee_finished", e,
              on_flee_finished([Called EXCEPT !.flee_running = FALSE,
                                              !.window_visible = FALSE], e))

\* The single-shot timer started with the trajectory (line 825) fires: the
\* player has not finished within max(3000, (total_duration + 2) * 1000) ms.
\* The handler is written for a timeout that reaches it after the entrance
\* is over as well.
VoiceTrajectoryTimeout ==
    \E e \in CallEnv :
        DirectorStep("on_voice_trajectory_timeout", e,
            on_voice_trajectory_timeout(Called, e))

\* A trajectory player emits finished(self): the player of the entrance in
\* progress, or one started earlier whose signal is still connected.
VoiceTrajectoryFinished ==
    \E e \in CallEnv, player_obj \in PlayerObjs :
        DirectorStepSignal("on_voice_trajectory_finished", e,
            on_voice_trajectory_finished(Called, e, player_obj),
            FALSE, "UNKNOWN", player_obj)

DirectorNext ==
    \/ OnUserIdle
    \/ OnUserActive
    \/ SummonNow
    \/ ToggleVisibility
    \/ AudioOutputStarted
    \/ AudioOutputStopped
    \/ SelfPlaybackStarted
    \/ SelfPlaybackFinished
    \/ AutoDismissTimeout
    \/ FleeFinished
    \/ VoiceTrajectoryFinished
    \/ VoiceTrajectoryTimeout

(***************************************************************************)
(* The behaviour mode: its resolution, and two runs side by side           *)
(***************************************************************************)
\* Director._resolve_effective_behavior_mode
resolve_effective_behavior_mode(d) ==
    IF d.voice_trajectory_playing THEN "SUMMONING"
    ELSE IF d.audio_output_active THEN "MEDIA_PLAYING"
    ELSE d.behavior_mode

\* Director._apply_behavior_mode_visual: the name of the visual state, or
\* "unchanged" in HIDDEN and FLEEING.
behavior_mode_visual(d) ==
    IF d.state \in {"HIDDEN", "FLEEING"} THEN "unchanged"
    ELSE CASE resolve_effective_behavior_mode(d) = "IDLE" -> "state1"
           [] resolve_effective_behavior_mode(d) = "BUSY" -> "state4"
           [] resolve_effective_behavior_mode(d) = "MEDIA_PLAYING" -> "state3"
           [] resolve_effective_behavior_mode(d) = "SUMMONING" -> "state6"

DirectorOps ==
    {"on_user_idle", "on_user_active", "summon_now", "toggle_visibility",
     "on_audio_output_started", "on_audio_output_stopped",
     "on_self_playback_started", "on_self_playback_finished",
     "on_auto_dismiss_timeout", "on_flee_finished",
     "on_voice_trajectory_finished", "on_voice_trajectory_timeout"}

\* The event op can happen when the first run's Director is d.
Possible(op, d) ==
    CASE op = "on_audio_output_started" -> ~d.monitor_playing
      [] op = "on_audio_output_stopped" -> d.monitor_playing
      [] op = "on_self_playback_started" -> d.self_audio = "pending"
      [] op = "on_self_playback_finished" -> d.self_audio = "playing"
      [] op = "on_auto_dismiss_timeout" -> d.auto_dismiss_active
      [] op = "on_flee_finished" -> d.flee_running
      [] op \in {"on_voice_trajectory_finished", "on_voice_trajectory_timeout"}
            -> d.voice_trajectory_playing
      [] OTHER -> TRUE

\* The Director d after the event op, as the operations of the Director
\* above deliver it.
Handle(op, d, e, paused, presence) ==
    CASE op = "on_user_idle" -> on_user_idle(d, e, paused, presence)
      [] op = "on_user_active" -> on_user_active(d, e)
      [] op = "summon_now" -> summon_now(d, e)
      [] op = "toggle_visibility" -> toggle_visibility(d, e)
      [] op = "on_audio_output_started" ->
            on_audio_output_started([d EXCEPT !.monitor_playing = TRUE], e)
      [] op = "on_audio_output_stopped" ->
            on_audio_output_stopped([d EXCEPT !.monitor_playing = FALSE], e)
      [] op = "on_self_playback_started" ->
            on_self_playback_started([d EXCEPT !.self_audio = "playing"])
      [] op = "on_self_playback_finished" ->
            on_self_playback_finished([d EXCEPT !.self_audio = "none"], e)
      [] op = "on_auto_dismiss_timeout" ->
            on_auto_dismiss_timeout([d EXCEPT !.auto_dismiss_active = FALSE], e)
      [] op = "on_flee_finished" ->
            on_flee_finished([d EXCEPT !.flee_running = FALSE,
                                       !.window_visible = FALSE], e)
      [] op = "on_voice_trajectory_finished" ->
            on_voice_trajectory_finished(d, e, "current")
      [] op = "on_voice_trajectory_timeout" ->
            on_voice_trajectory_timeout(d, e)

\* Both runs get the same event with the same inputs.
ModesStep ==
    \E op \in DirectorOps, e \in CallEnv :
    \E paused \in (IF op = "on_user_idle" THEN BOOLEAN ELSE {FALSE}) :
    \E presence \in (IF op = "on_user_idle" THEN PresenceState ELSE {"UNKNOWN"}) :
        /\ Possible(op, director)
        /\ director' = Handle(op, Called, e, paused, presence)
        /\ shadow' = Handle(op, CalledOf(shadow), e, paused, presence)
        /\ current_state' = director'.state
        /\ dlast' = [op |-> op, from |-> director.state, asset |-> e.asset,
                     traj |-> director.voice_trajectory_playing,
                     ret |-> director'.ret,
                     paused |-> paused, presence |-> presence,
                     player |-> "current"]
        /\ UNCHANGED <<callbacks, fsm_last, audioVars, cthread, scriptVars,
                       mood, detector, scheduler,
                   monitor,
                   invasion,
                   commentator,
                   inbox>>

\* The second run's behaviour mode becomes any mode.
ModesPerturb ==
    /\ \E m \in BehaviorMode : shadow' = [shadow EXCEPT !.behavior_mode = m]
    /\ UNCHANGED <<fsmVars, audioVars, dirVars, cthread, scriptVars, mood,
                   detector, scheduler,
                   monitor,
                   invasion,
                   commentator,
                   inbox>>

ModesNext == ModesStep \/ ModesPerturb

(***************************************************************************)
(* core/time_range.py                                                      *)
(***************************************************************************)
\* A time_range string: "default" (also None and the empty string), a
\* string without "-", or "HH:MM-HH:MM" with the four numbers it holds.
DefaultRange == [kind |-> "default", sh |-> 0, sm |-> 0, eh |-> 0, em |-> 0]
NoDashRange == [kind |-> "nodash", sh |-> 0, sm |-> 0, eh |-> 0, em |-> 0]
Range(sh, sm, eh, em) ==
    [kind |-> "range", sh |-> sh, sm |-> sm, eh |-> eh, em |-> em]

\* An instant is a number of minutes since midnight of day 0; its datetime
\* fields hour and minute.
hour(now) == (now % (24 * 60)) \div 60
minute(now) == now % 60

\* is_default_time_range
is_default_time_range(time_range) == time_range.kind = "default"

\* The ValueError of _to_minutes.
ValueError == -1

\* _to_minutes
to_minutes(hh, mm) ==
    IF ~(0 <= hh /\ hh < 24 /\ 0 <= mm /\ mm < 60) THEN ValueError
    ELSE hh * 60 + mm

\* Mutant of matches_time_range: the end of a range is included.
matches_time_rangeEndIncluded(time_range, now) ==
    IF time_range.kind = "default" THEN TRUE
    ELSE IF time_range.kind = "nodash" THEN FALSE
    ELSE LET start_minutes == to_minutes(time_range.sh, time_range.sm)
             end_minutes == to_minutes(time_range.eh, time_range.em)
             current == hour(now) * 60 + minute(now)
         IN  IF start_minutes = ValueError \/ end_minutes = ValueError
             THEN FALSE
             ELSE IF start_minutes <= end_minutes
                  THEN start_minutes <= current /\ current <= end_minutes
                  ELSE current >= start_minutes \/ current <= end_minutes

\* matches_time_range
matches_time_range(time_range, now) ==
    IF time_range.kind = "default" THEN TRUE
    ELSE IF time_range.kind = "nodash" THEN FALSE
    ELSE LET start_minutes == to_minutes(time_range.sh, time_range.sm)
             end_minutes == to_minutes(time_range.eh, time_range.em)
             current == hour(now) * 60 + minute(now)
         IN  IF start_minutes = ValueError \/ end_minutes = ValueError
             THEN FALSE
             ELSE IF start_minutes <= end_minutes
                  THEN start_minutes <= current /\ current < end_minutes
                  ELSE current >= start_minutes \/ current < end_minutes

(***************************************************************************)
(* core/script_engine.py: ScriptEngine                                     *)
(***************************************************************************)
\* A Script, as far as the selection reads it.
Script(id, time_range, cooldown_minutes) ==
    [id |-> id, time_range |-> time_range, cooldown_minutes |-> cooldown_minutes]

\* The scripts the pools are made of.
IdleScripts ==
    {Script("night", Range(22, 0, 6, 0), 10),
     Script("noon", Range(12, 0, 13, 0), 0),
     Script("fallback", DefaultRange, 5)}

PanicScripts == {Script("panic", DefaultRange, 0)}

ScriptIds == {s.id : s \in IdleScripts \cup PanicScripts}

\* _last_played.get(id) is None; _last_script_id is None; the result None.
NeverPlayed == -1
None == "None"

\* The instants at which a selection is asked for: 23:00 of day 0 and 5,
\* 10 and 11 minutes later, then 02:00, 12:00, 12:04 and 13:00 of day 1.
Instants == {1380, 1385, 1390, 1391, 1560, 2160, 2164, 2220}

_is_time_match(script, now) == matches_time_range(script.time_range, now)

_is_default_range(script) == is_default_time_range(script.time_range)

\* Mutant of _is_cooling_down: the cooldown is taken to be over at once.
_is_cooling_downNever(e, script, now) == FALSE

\* ScriptEngine._is_cooling_down
_is_cooling_down(e, script, now) ==
    IF script.cooldown_minutes <= 0 THEN FALSE
    ELSE LET last_time == e.last_played[script.id]
         IN  IF last_time = NeverPlayed THEN FALSE
             ELSE now < last_time + script.cooldown_minutes

\* Mutant of _filter_candidates: the previous selection is not looked at.
_filter_candidatesRepeat(e, source, now, avoid_repeat, honor_cooldown, total_source_size) ==
    {script \in source :
        /\ _is_time_match(script, now)
        /\ ~(honor_cooldown /\ _is_cooling_down(e, script, now))}

\* Mutant of _filter_candidates: the time window is not looked at.
_filter_candidatesAnyTime(e, source, now, avoid_repeat, honor_cooldown, total_source_size) ==
    {script \in source :
        /\ ~(honor_cooldown /\ _is_cooling_down(e, script, now))
        /\ ~(avoid_repeat /\ script.id = e.last_script_id /\ total_source_size > 1)}

\* ScriptEngine._filter_candidates
_filter_candidates(e, source, now, avoid_repeat, honor_cooldown, total_source_size) ==
    {script \in source :
        /\ _is_time_match(script, now)
        /\ ~(honor_cooldown /\ _is_cooling_down(e, script, now))
        /\ ~(avoid_repeat /\ script.id = e.last_script_id /\ total_source_size > 1)}

\* The pools of ScriptEngine._select_script (lines 59-61).
exact_matches(source, now) ==
    {s \in source : _is_time_match(s, now) /\ ~_is_default_range(s)}

default_matches(source) == {s \in source : _is_default_range(s)}

\* A primary pool that prefers the default entries to the exact matches.
primary_poolDefaultFirst(source, now) ==
    IF default_matches(source) # {} THEN default_matches(source)
    ELSE IF exact_matches(source, now) # {} THEN exact_matches(source, now)
    ELSE source

primary_pool(source, now) ==
    IF exact_matches(source, now) # {} THEN exact_matches(source, now)
    ELSE IF default_matches(source) # {} THEN default_matches(source)
    ELSE source

\* Mutant of _select_candidates: the last retry ignores the cooldown and
\* keeps the repeat-avoidance.
_select_candidatesIgnoreCooldown(e, source, now, avoid_repeat, honor_cooldown) ==
    LET n == Cardinality(source)
        both == exact_matches(source, now) # {} /\ default_matches(source) # {}
        c1 == _filter_candidates(e, primary_pool(source, now), now,
                                 avoid_repeat, honor_cooldown, n)
        c2 == IF c1 = {} /\ both
              THEN _filter_candidates(e, default_matches(source), now,
                                      avoid_repeat, honor_cooldown, n)
              ELSE c1
    IN  IF c2 = {}
        THEN _filter_candidates(e, IF both THEN default_matches(source)
                                   ELSE primary_pool(source, now),
                                now, avoid_repeat, FALSE, n)
        ELSE c2

\* ScriptEngine._select_script up to the weighted draw (lines 56-91): the
\* final candidate list, as a set.
_select_candidates(e, source, now, avoid_repeat, honor_cooldown) ==
    LET n == Cardinality(source)
        both == exact_matches(source, now) # {} /\ default_matches(source) # {}
        c1 == _filter_candidates(e, primary_pool(source, now), now,
                                 avoid_repeat, honor_cooldown, n)
        c2 == IF c1 = {} /\ both
              THEN _filter_candidates(e, default_matches(source), now,
                                      avoid_repeat, honor_cooldown, n)
              ELSE c1
    IN  IF c2 = {}
        THEN _filter_candidates(e, IF both THEN default_matches(source)
                                   ELSE primary_pool(source, now),
                                now, FALSE, honor_cooldown, n)
        ELSE c2

\* ScriptEngine.__init__ with the given pools.
ScriptEngineInit(idle_scripts, panic_scripts) ==
    [idle_scripts |-> idle_scripts, panic_scripts |-> panic_scripts,
     last_played |-> [i \in ScriptIds |-> NeverPlayed],
     last_script_id |-> None]

NoSelection ==
    [op |-> "none", now |-> 0, source |-> {}, candidates |-> {},
     result |-> None, last_played |-> [i \in ScriptIds |-> NeverPlayed],
     last_script_id |-> None]

NoProbe == [range |-> DefaultRange, now |-> 0, matches |-> TRUE]

\* ScriptEngine._select_script called by op on the pool source: any
\* candidate can be drawn, since every weight is at least 0.01.  sel keeps
\* the arguments, the result, and _last_played and _last_script_id as they
\* were before the call.
_select_script(op, source, now, avoid_repeat, honor_cooldown) ==
    LET c == _select_candidates(engine, source, now, avoid_repeat, honor_cooldown)
        seen == [op |-> op, now |-> now, source |-> source,
                 candidates |-> {s.id : s \in c}, result |-> None,
                 last_played |-> engine.last_played,
                 last_script_id |-> engine.last_script_id]
    IN  /\ IF source = {} \/ c = {}
           THEN /\ sel' = seen
                /\ engine' = engine
           ELSE \E selected \in c :
                   /\ sel' = [seen EXCEPT !.result = selected.id]
                   /\ engine' = [engine EXCEPT
                                    !.last_played[selected.id] = now,
                                    !.last_script_id = selected.id]
        /\ UNCHANGED <<tr, fsmVars, audioVars, dirVars, partVars, cthread>>

\* ScriptEngine.select_idle_script(now); the clock does not run backwards.
select_idle_script ==
    \E now \in Instants :
        /\ now >= sel.now
        /\ _select_script("select_idle_script", engine.idle_scripts, now,
                          TRUE, TRUE)

\* ScriptEngine.select_panic_script(now)
select_panic_script ==
    \E now \in Instants :
        /\ now >= sel.now
        /\ _select_script("select_panic_script",
                          IF engine.panic_scripts # {} THEN engine.panic_scripts
                          ELSE engine.idle_scripts,
                          now, FALSE, FALSE)

ScriptInit ==
    /\ engine \in {ScriptEngineInit(i, p) :
                      i \in SUBSET IdleScripts, p \in SUBSET PanicScripts}
    /\ sel = NoSelection
    /\ tr = NoProbe

ScriptNext ==
    \/ select_idle_script
    \/ select_panic_script

(***************************************************************************)
(* matches_time_range applied to the ranges and instants below.            *)
(***************************************************************************)
HourInputs == {0, 6, 12, 13, 22, 24}
MinuteInputs == {0, 30, 60}
RangeInputs ==
    {DefaultRange, NoDashRange}
        \cup {Range(sh, sm, eh, em) : sh \in HourInputs, sm \in MinuteInputs,
                                      eh \in HourInputs, em \in MinuteInputs}
NowInputs ==
    {d * 24 * 60 + h * 60 + m : d \in {0, 1}, h \in {0, 2, 6, 12, 13, 22, 23},
                                m \in {0, 30, 59}}

Probe(range, now) ==
    /\ tr' = [range |-> range, now |-> now,
              matches |-> matches_time_range(range, now)]
    /\ UNCHANGED <<engine, sel, fsmVars, audioVars, dirVars, partVars, cthread>>

ProbeRange == \E range \in RangeInputs : Probe(range, tr.now)

ProbeInstant == \E now \in NowInputs : Probe(tr.range, now)

TimeRangeNext ==
    \/ ProbeRange
    \/ ProbeInstant

(***************************************************************************)
(* core/mood_system.py: MoodSystem                                         *)
(* The mood is counted in hundredths: 0.5 is 50.  m.last and m.prev are    *)
(* the last call and the mood before it; m.decays counts the natural       *)
(* decays since the last other call, up to DecaysToMid.                    *)
(***************************************************************************)
max(a, b) == IF a >= b THEN a ELSE b

min(a, b) == IF a <= b THEN a ELSE b

MoodMin == 0
MoodMax == 100
MoodMid == 50
DismissedPenalty == 5
InteractedGain == 10
EngagedGain == 15
DecayStep == 2

\* The decays that bring any mood to 0.5: 0.5 / 0.02.
DecaysToMid == 25

\* MoodSystem.__init__
MoodSystemInit(initial_mood) ==
    [mood |-> max(MoodMin, min(MoodMax, initial_mood)),
     last |-> "__init__", prev |-> initial_mood, decays |-> 0]

\* MoodSystem.on_dismissed
on_dismissed(v) == max(MoodMin, v - DismissedPenalty)

\* MoodSystem.on_interacted
on_interacted(v) == min(MoodMax, v + InteractedGain)

\* MoodSystem.on_engaged
on_engaged(v) == min(MoodMax, v + EngagedGain)

\* A decay that does not stop at 0.5.
natural_decayUnclamped(v) ==
    IF v > MoodMid THEN v - DecayStep
    ELSE IF v < MoodMid THEN v + DecayStep
    ELSE v

\* MoodSystem.natural_decay
natural_decay(v) ==
    IF v > MoodMid THEN max(MoodMid, v - DecayStep)
    ELSE IF v < MoodMid THEN min(MoodMid, v + DecayStep)
    ELSE v

\* The values MoodSystem is built with: some are outside [0, 1].
InitialMoods == (0 - 10) .. 110

MoodInit == mood \in {MoodSystemInit(v) : v \in InitialMoods}

MoodCall(op, v, decays) ==
    /\ mood' = [mood |-> v, last |-> op, prev |-> mood.mood, decays |-> decays]
    /\ UNCHANGED <<fsmVars, audioVars, dirVars, cthread, scriptVars, shadow,
                   detector, scheduler,
                   monitor,
                   invasion,
                   commentator,
                   inbox>>

MoodDismissed == MoodCall("on_dismissed", on_dismissed(mood.mood), 0)

MoodInteracted == MoodCall("on_interacted", on_interacted(mood.mood), 0)

MoodEngaged == MoodCall("on_engaged", on_engaged(mood.mood), 0)

\* The mood decay timer fires.
MoodDecay ==
    MoodCall("natural_decay", natural_decay(mood.mood),
             min(DecaysToMid, mood.decays + 1))

MoodNext == MoodDismissed \/ MoodInteracted \/ MoodEngaged \/ MoodDecay

(***************************************************************************)
(* core/presence_detector.py: PresenceDetector                             *)
(* A gaze observation is "none" (no GazeData), "absent" (face_detected is  *)
(* False) or "detected".  Idle times are in milliseconds.                  *)
(***************************************************************************)
IDLE_THRESHOLD_MS == 300000
FACE_ABSENT_FRAMES == 30
ActiveBelowMs == 60000

GazeInputs == {"none", "absent", "detected"}

IdleInputs == {0, 30000, 59999, 60000, 100000, 299999, 300000, 400000}

\* determine_presence that keeps the streak when a face is detected.
determine_presenceNoReset(count, idle_time_ms, gaze_data) ==
    IF idle_time_ms < ActiveBelowMs
    THEN [state |-> "PRESENT_ACTIVE", count |-> count]
    ELSE IF gaze_data = "none" THEN [state |-> "UNKNOWN", count |-> count]
    ELSE LET c == IF gaze_data = "absent" THEN count + 1 ELSE count
         IN  [state |-> IF idle_time_ms >= IDLE_THRESHOLD_MS
                        THEN IF c >= FACE_ABSENT_FRAMES THEN "ABSENT"
                             ELSE IF gaze_data = "detected"
                             THEN "PRESENT_PASSIVE" ELSE "UNKNOWN"
                        ELSE "UNKNOWN",
              count |-> c]

\* PresenceDetector.determine_presence: the state it returns and
\* _face_absent_count after the call.
determine_presence(count, idle_time_ms, gaze_data) ==
    IF idle_time_ms < ActiveBelowMs
    THEN [state |-> "PRESENT_ACTIVE", count |-> count]
    ELSE IF gaze_data = "none" THEN [state |-> "UNKNOWN", count |-> count]
    ELSE LET c == IF gaze_data = "absent" THEN count + 1 ELSE 0
         IN  [state |-> IF idle_time_ms >= IDLE_THRESHOLD_MS
                        THEN IF c >= FACE_ABSENT_FRAMES THEN "ABSENT"
                             ELSE IF gaze_data = "detected"
                             THEN "PRESENT_PASSIVE" ELSE "UNKNOWN"
                        ELSE "UNKNOWN",
              count |-> c]

\* PresenceDetector.__init__
PresenceDetectorInit ==
    [count |-> 0, before |-> 0, idle |-> 0, gaze |-> "none", state |-> "none"]

DeterminePresence ==
    \E idle \in IdleInputs, gaze \in GazeInputs :
        /\ detector.count < MaxAbsent
        /\ LET r == determine_presence(detector.count, idle, gaze)
           IN  detector' = [count |-> r.count, before |-> detector.count,
                            idle |-> idle, gaze |-> gaze, state |-> r.state]
        /\ UNCHANGED <<fsmVars, audioVars, dirVars, cthread, scriptVars,
                       shadow, mood, scheduler,
                   monitor,
                   invasion,
                   commentator,
                   inbox>>

\* The detector is made anew (as by a restart of the application).
PresenceRestart ==
    /\ detector.state # "none"
    /\ detector' = PresenceDetectorInit
    /\ UNCHANGED <<fsmVars, audioVars, dirVars, cthread, scriptVars,
                   shadow, mood, scheduler,
                   monitor,
                   invasion,
                   commentator,
                   inbox>>

PresenceNext == DeterminePresence \/ PresenceRestart

(***************************************************************************)
(* core/resource_scheduler.py: ResourceScheduler                           *)
(* Clock readings are whole minutes.  _last_dialog_at is None (has is      *)
(* FALSE) or a clock reading.                                              *)
(***************************************************************************)
LLM_IDLE_TERMINATE_MINUTES == 5

Clock == 0 .. MaxNow

NoDialogYet == [has |-> FALSE, at |-> 0]

ResourcePlan(gui, cv, llm) ==
    [gui_running |-> gui, cv_running |-> cv, llm_running |-> llm]

\* ResourceScheduler.mark_dialog_activity
mark_dialog_activity(now) == [has |-> TRUE, at |-> now]

\* resolve_plan that lets the LLM go at the end of the fifth minute.
resolve_planStrict(last, is_fullscreen, user_dialog_active, now) ==
    IF is_fullscreen
    THEN [plan |-> ResourcePlan(TRUE, FALSE, FALSE), last |-> last]
    ELSE IF user_dialog_active
    THEN [plan |-> ResourcePlan(TRUE, TRUE, TRUE),
          last |-> mark_dialog_activity(now)]
    ELSE IF last.has /\ now < last.at + LLM_IDLE_TERMINATE_MINUTES
    THEN [plan |-> ResourcePlan(TRUE, TRUE, TRUE), last |-> last]
    ELSE [plan |-> ResourcePlan(TRUE, TRUE, FALSE), last |-> last]

\* ResourceScheduler.resolve_plan: the plan it returns and _last_dialog_at
\* after the call.
resolve_plan(last, is_fullscreen, user_dialog_active, now) ==
    IF is_fullscreen
    THEN [plan |-> ResourcePlan(TRUE, FALSE, FALSE), last |-> last]
    ELSE IF user_dialog_active
    THEN [plan |-> ResourcePlan(TRUE, TRUE, TRUE),
          last |-> mark_dialog_activity(now)]
    ELSE IF last.has /\ now <= last.at + LLM_IDLE_TERMINATE_MINUTES
    THEN [plan |-> ResourcePlan(TRUE, TRUE, TRUE), last |-> last]
    ELSE [plan |-> ResourcePlan(TRUE, TRUE, FALSE), last |-> last]

\* ResourceScheduler.__init__
ResourceSchedulerInit ==
    [last |-> NoDialogYet, op |-> "none", before |-> NoDialogYet, now |-> 0,
     is_fullscreen |-> FALSE, user_dialog_active |-> FALSE,
     plan |-> ResourcePlan(TRUE, TRUE, FALSE)]

ResolvePlan ==
    \E fs \in BOOLEAN, dlg \in BOOLEAN, now \in Clock :
        /\ LET r == resolve_plan(scheduler.last, fs, dlg, now)
           IN  scheduler' = [last |-> r.last, op |-> "resolve_plan",
                             before |-> scheduler.last, now |-> now,
                             is_fullscreen |-> fs, user_dialog_active |-> dlg,
                             plan |-> r.plan]
        /\ UNCHANGED <<fsmVars, audioVars, dirVars, cthread, scriptVars,
                       shadow, mood, detector,
                   monitor,
                   invasion,
                   commentator,
                   inbox>>

MarkDialogActivity ==
    \E now \in Clock :
        /\ scheduler' = [scheduler EXCEPT !.last = mark_dialog_activity(now),
                                          !.op = "mark_dialog_activity",
                                          !.before = scheduler.last,
                                          !.now = now]
        /\ UNCHANGED <<fsmVars, audioVars, dirVars, cthread, scriptVars,
                       shadow, mood, detector,
                   monitor,
                   invasion,
                   commentator,
                   inbox>>

SchedulerNext == ResolvePlan \/ MarkDialogActivity

(***************************************************************************)
(* core/idle_monitor.py: IdleMonitor                                       *)
(* run() is the poll loop on the monitor's thread; reset_to_standby and    *)
(* set_threshold_ms are called by the Director on the orchestration        *)
(* thread.  No lock guards _state: each thread's reads and writes of it    *)
(* are steps of their own.                                                 *)
(***************************************************************************)
DEFAULT_THRESHOLD_MS == 180000
ACTIVE_RESET_MS == 1000

\* int(self._threshold_ms * self.PRE_IDLE_RATIO), the ratio being 0.8
PreIdleMs(threshold_ms) == (threshold_ms * 4) \div 5

IdleTimes == {0, 999, 1000, 144000, 180000, 192000, 240000}

Thresholds == {180000, 240000}

\* IdleMonitor._update_state: the state it asks _set_state for ("none" when
\* it asks for none) and the signal it emits afterwards, from the state the
\* match statement read.
UpdateStateBranch(matched, idle_ms, threshold_ms) ==
    CASE matched = "STANDBY" ->
            IF idle_ms >= threshold_ms
            THEN [target |-> "IDLE_TRIGGERED", signal |-> "user_idle_confirmed"]
            ELSE IF idle_ms >= PreIdleMs(threshold_ms)
            THEN [target |-> "PRE_IDLE", signal |-> "none"]
            ELSE [target |-> "none", signal |-> "none"]
      [] matched = "PRE_IDLE" ->
            IF idle_ms >= threshold_ms
            THEN [target |-> "IDLE_TRIGGERED", signal |-> "user_idle_confirmed"]
            ELSE IF idle_ms < ACTIVE_RESET_MS
            THEN [target |-> "STANDBY", signal |-> "none"]
            ELSE [target |-> "none", signal |-> "none"]
      [] matched = "IDLE_TRIGGERED" ->
            IF idle_ms < ACTIVE_RESET_MS
            THEN [target |-> "ACTIVE", signal |-> "user_active_detected"]
            ELSE [target |-> "none", signal |-> "none"]
      [] OTHER -> [target |-> "none", signal |-> "none"]

\* IdleMonitor.__init__
IdleMonitorInit ==
    [state |-> "STANDBY", threshold_ms |-> DEFAULT_THRESHOLD_MS,
     pc |-> "sleep", matched |-> "STANDBY", idle_ms |-> 0,
     target |-> "none", signal |-> "none",
     rpc |-> "idle", emitted |-> <<>>, raced |-> FALSE]

MonitorFrame ==
    UNCHANGED <<fsmVars, audioVars, dirVars, cthread, scriptVars,
                shadow, mood, detector, scheduler, invasion,
                   commentator,
                   inbox>>

\* run(): one reading of the idle time, and the match statement's read of
\* _state.
poll_read(m, idle_ms) ==
    [m EXCEPT !.pc = "matched",
              !.idle_ms = idle_ms,
              !.matched = m.state,
              !.raced = @ \/ m.rpc # "idle"]

\* _update_state: the branch taken, and _set_state's comparison of _state
\* with the state asked for.
update_state_check(m) ==
    LET b == UpdateStateBranch(m.matched, m.idle_ms, m.threshold_ms)
    IN  [m EXCEPT !.target = b.target,
                  !.signal = b.signal,
                  !.pc = IF b.target = "none" THEN "sleep"
                         ELSE IF m.state = b.target THEN "emit"
                         ELSE "write",
                  !.raced = @ \/ m.rpc # "idle"]

\* _set_state: the write of _state.
set_state_write(m) ==
    [m EXCEPT !.state = m.target,
              !.pc = "emit",
              !.raced = @ \/ m.rpc # "idle"]

\* _update_state: the emit that follows _set_state, if any.
update_state_emit(m) ==
    [m EXCEPT !.emitted = IF m.signal = "none" THEN @ ELSE Append(@, m.signal),
              !.pc = "sleep",
              !.raced = @ \/ m.rpc # "idle"]

\* reset_to_standby(): _set_state's comparison; the call returns at once
\* when _state is STANDBY already.
reset_to_standby_check(m) ==
    [m EXCEPT !.rpc = IF m.state = "STANDBY" THEN "idle" ELSE "write",
              !.emitted = IF m.state = "STANDBY" THEN <<>> ELSE @,
              !.raced = @ \/ m.pc # "sleep"]

\* reset_to_standby(): _set_state's write, and the return.
reset_to_standby_write(m) ==
    [m EXCEPT !.state = "STANDBY",
              !.rpc = "idle",
              !.emitted = <<>>,
              !.raced = @ \/ m.pc # "sleep"]

\* IdleMonitor.set_threshold_ms
set_threshold_ms(m, threshold_ms) ==
    [m EXCEPT !.threshold_ms = max(1, threshold_ms)]

PollRead ==
    \E idle_ms \in IdleTimes :
        /\ monitor.pc = "sleep"
        /\ Len(monitor.emitted) < MaxEmitted
        /\ monitor' = poll_read(monitor, idle_ms)
        /\ MonitorFrame

PollCheck ==
    /\ monitor.pc = "matched"
    /\ monitor' = update_state_check(monitor)
    /\ MonitorFrame

PollWrite ==
    /\ monitor.pc = "write"
    /\ monitor' = set_state_write(monitor)
    /\ MonitorFrame

PollEmit ==
    /\ monitor.pc = "emit"
    /\ monitor' = update_state_emit(monitor)
    /\ MonitorFrame

ResetCheck ==
    /\ monitor.rpc = "idle"
    /\ monitor' = reset_to_standby_check(monitor)
    /\ MonitorFrame

ResetWrite ==
    /\ monitor.rpc = "write"
    /\ monitor' = reset_to_standby_write(monitor)
    /\ MonitorFrame

SetThresholdMs ==
    \E threshold_ms \in Thresholds :
        /\ monitor.threshold_ms # max(1, threshold_ms)
        /\ monitor' = set_threshold_ms(monitor, threshold_ms)
        /\ MonitorFrame

MonitorNext ==
    \/ PollRead
    \/ PollCheck
    \/ PollWrite
    \/ PollEmit
    \/ ResetCheck
    \/ ResetWrite
    \/ SetThresholdMs

(***************************************************************************)
(* core/idle_invasion.py: IdleInvasionController                           *)
(* All of its slots run on the orchestration loop, one at a time.  A       *)
(* particle emits finished synchronously from force_dismiss() and from a   *)
(* spawn() that fails, so _on_particle_finished runs inside the caller.    *)
(* An operation that draws a random cell is given as the set of records    *)
(* it can leave.                                                           *)
(***************************************************************************)
START_DELAY_MS == 180000
FallbackActiveMs == 1000

InvasionConfigs ==
    [enabled : BOOLEAN, max_invaders : 1 .. MaxInvaders,
     retreat_style : {"instant", "scatter"}, gifs : BOOLEAN]

DefaultInvasionConfig ==
    [enabled |-> TRUE, max_invaders |-> MaxInvaders,
     retreat_style |-> "scatter", gifs |-> TRUE]

\* What a call finds: whether there is a primary screen, how many cells its
\* geometry gives, and whether the particle's movie loads.
InvasionEnv ==
    [screen : BOOLEAN, cols : 1 .. MaxSide, rows : 1 .. MaxSide,
     movie : BOOLEAN]

InvasionIdleTimes == {0, 180000}

NoCellMap == [p \in {} |-> <<0, 0>>]

\* IdleInvasionController.__init__
IdleInvasionControllerInit(config) ==
    [state |-> "INACTIVE",
     enabled |-> config.enabled,
     max_invaders |-> config.max_invaders,
     retreat_style |-> config.retreat_style,
     gif_paths |-> config.gifs,
     grid_cols |-> 0, grid_rows |-> 0,
     occupied |-> {}, particle_cell_map |-> NoCellMap,
     particles |-> {}, next_pid |-> 0,
     spawn_timer |-> FALSE, retreat_timer |-> FALSE,
     idle_time_ms |-> 0, invasion_started |-> FALSE,
     retreating |-> {},
     cap_at_spawn |-> config.max_invaders, op |-> "none"]

GridCells(c) == (0 .. c.grid_cols - 1) \X (0 .. c.grid_rows - 1)

\* IdleInvasionController._reset
_reset(c) ==
    [c EXCEPT !.state = "INACTIVE", !.invasion_started = FALSE,
              !.idle_time_ms = 0, !.occupied = {},
              !.particle_cell_map = NoCellMap]

\* IdleInvasionController._on_particle_finished
_on_particle_finished(c, pid) ==
    LET c1 == [c EXCEPT
                 !.particles = @ \ {pid},
                 !.particle_cell_map =
                     [p \in DOMAIN @ \ {pid} |-> @[p]],
                 !.occupied = IF pid \in DOMAIN c.particle_cell_map
                              THEN @ \ {c.particle_cell_map[pid]} ELSE @]
    IN  IF c1.state = "RETREATING" /\ c1.particles = {}
        THEN _reset([c1 EXCEPT !.retreat_timer = FALSE])
        ELSE c1

\* force_dismiss() on each of the particles pids, in the order of their ids.
RECURSIVE ForceDismissEach(_, _)
ForceDismissEach(c, pids) ==
    IF pids = {} THEN c
    ELSE LET pid == CHOOSE p \in pids : \A q \in pids : p <= q
         IN  ForceDismissEach(_on_particle_finished(c, pid), pids \ {pid})

\* IdleInvasionController._dismiss_all_immediate
_dismiss_all_immediate(c) ==
    [ForceDismissEach(c, c.particles) EXCEPT
        !.particles = {}, !.occupied = {}, !.particle_cell_map = NoCellMap]

\* IdleInvasionController._begin_retreat; a ripple retreat differs from a
\* scatter retreat in its delays only.
_begin_retreat(c) ==
    LET c1 == [c EXCEPT !.spawn_timer = FALSE, !.state = "RETREATING"]
    IN  IF c1.retreat_style = "instant" \/ c1.particles = {}
        THEN _reset(_dismiss_all_immediate(c1))
        ELSE [c1 EXCEPT !.retreating = @ \cup c1.particles,
                        !.retreat_timer = TRUE]

\* IdleInvasionController._finish_retreat
_finish_retreat(c) ==
    LET c1 == [c EXCEPT !.retreat_timer = FALSE]
    IN  IF c1.state = "RETREATING" THEN _reset(_dismiss_all_immediate(c1))
        ELSE c1

\* A cell picker that does not look at _occupied.
_pick_free_cellAnyCell(c) == GridCells(c)

\* IdleInvasionController._pick_free_cell: the cells it can return; none
\* stands for None.  (Grids of at most 200 cells: the free list.)
_pick_free_cell(c) ==
    IF Cardinality(c.occupied) >= c.grid_cols * c.grid_rows THEN {}
    ELSE GridCells(c) \ c.occupied

\* _spawn_one gave up: SATURATED.
Saturated(c) == [c EXCEPT !.state = "SATURATED", !.spawn_timer = FALSE]

\* _spawn_one from the choice of the cell on; a particle whose spawn()
\* finds no screen or no movie cleans up and emits finished at once.
PlaceInvader(c, cell, e) ==
    LET pid == c.next_pid
        c1 == [c EXCEPT
                 !.next_pid = @ + 1,
                 !.particles = @ \cup {pid},
                 !.occupied = @ \cup {cell},
                 !.particle_cell_map =
                     [p \in DOMAIN @ \cup {pid} |->
                         IF p = pid THEN cell ELSE @[p]],
                 !.cap_at_spawn = c.max_invaders]
    IN  IF e.screen /\ e.movie THEN c1 ELSE _on_particle_finished(c1, pid)

\* IdleInvasionController._spawn_one
_spawn_one(c, e) ==
    IF Cardinality(c.particles) >= c.max_invaders THEN {Saturated(c)}
    ELSE IF _pick_free_cell(c) = {} THEN {Saturated(c)}
    ELSE {PlaceInvader(c, cell, e) : cell \in _pick_free_cell(c)}

\* IdleInvasionController._arm_spawn_timer, when still SPAWNING
ArmIfSpawning(c) ==
    IF c.state = "SPAWNING" THEN [c EXCEPT !.spawn_timer = TRUE] ELSE c

\* IdleInvasionController._init_grid
_init_grid(c, e) ==
    IF ~e.screen THEN c
    ELSE [c EXCEPT !.grid_cols = e.cols, !.grid_rows = e.rows,
                   !.occupied = {}, !.particle_cell_map = NoCellMap]

\* IdleInvasionController._begin_spawning
_begin_spawning(c, e) ==
    IF ~c.gif_paths THEN {c}
    ELSE {ArmIfSpawning(r) :
            r \in _spawn_one(_init_grid([c EXCEPT !.state = "SPAWNING"], e), e)}

\* IdleInvasionController._on_spawn_tick
_on_spawn_tick(c, e) ==
    LET c1 == [c EXCEPT !.spawn_timer = FALSE]
    IN  IF c1.state # "SPAWNING" THEN {c1}
        ELSE {ArmIfSpawning(r) : r \in _spawn_one(c1, e)}

\* IdleInvasionController._on_idle_time_updated
_on_idle_time_updated(c, idle_ms, e) ==
    LET c1 == [c EXCEPT !.idle_time_ms = idle_ms]
    IN  IF ~c1.enabled THEN {c1}
        ELSE IF c1.state = "RETREATING" THEN {c1}
        ELSE IF c1.invasion_started /\ idle_ms < FallbackActiveMs
        THEN IF c1.state \in {"SPAWNING", "SATURATED"}
             THEN {_begin_retreat(c1)}
             ELSE {[c1 EXCEPT !.invasion_started = FALSE]}
        ELSE IF c1.state = "INACTIVE"
        THEN IF c1.invasion_started THEN {c1}
             ELSE IF idle_ms >= START_DELAY_MS
             THEN _begin_spawning([c1 EXCEPT !.invasion_started = TRUE], e)
             ELSE {c1}
        ELSE {c1}

\* IdleInvasionController._on_user_active
_on_user_active(c) ==
    IF c.state \in {"SPAWNING", "SATURATED"} THEN _begin_retreat(c)
    ELSE IF c.state = "INACTIVE"
    THEN [c EXCEPT !.invasion_started = FALSE, !.idle_time_ms = 0]
    ELSE c

\* IdleInvasionController.apply_config
apply_config(c, config) ==
    LET c1 == [c EXCEPT !.enabled = config.enabled,
                        !.max_invaders = config.max_invaders,
                        !.retreat_style = config.retreat_style,
                        !.gif_paths = config.gifs]
        c2 == IF c1.state = "INACTIVE"
              THEN [c1 EXCEPT !.invasion_started = FALSE] ELSE c1
    IN  IF ~config.enabled /\ c2.state # "INACTIVE" THEN _begin_retreat(c2)
        ELSE c2

\* IdleInvasionController.shutdown
shutdown(c) ==
    [_dismiss_all_immediate([c EXCEPT !.spawn_timer = FALSE,
                                      !.retreat_timer = FALSE])
        EXCEPT !.state = "INACTIVE"]

InvasionInit ==
    invasion \in {IdleInvasionControllerInit(config) : config \in InvasionConfigs}

InvasionFrame ==
    UNCHANGED <<fsmVars, audioVars, dirVars, cthread, scriptVars,
                shadow, mood, detector, scheduler, monitor, commentator,
                inbox>>

\* The operation op leaves the controller as one of outcomes.
InvasionStep(op, outcomes) ==
    /\ \E c \in outcomes : invasion' = [c EXCEPT !.op = op]
    /\ InvasionFrame

\* IdleMonitor.idle_time_updated is delivered.
InvasionIdleTimeUpdated ==
    \E idle_ms \in InvasionIdleTimes, e \in InvasionEnv :
        /\ invasion.next_pid < MaxPid
        /\ InvasionStep("_on_idle_time_updated",
                        _on_idle_time_updated(invasion, idle_ms, e))

\* IdleMonitor.user_active_detected is delivered.
InvasionUserActive ==
    InvasionStep("_on_user_active", {_on_user_active(invasion)})

\* The spawn timer fires.
InvasionSpawnTick ==
    \E e \in InvasionEnv :
        /\ invasion.spawn_timer
        /\ invasion.next_pid < MaxPid
        /\ InvasionStep("_on_spawn_tick", _on_spawn_tick(invasion, e))

\* The retreat timer fires.
InvasionFinishRetreat ==
    /\ invasion.retreat_timer
    /\ InvasionStep("_finish_retreat", {_finish_retreat(invasion)})

\* A particle told to retreat ends its exit animation and emits finished.
InvasionParticleFinished ==
    \E pid \in invasion.retreating :
        InvasionStep("_on_particle_finished",
            {_on_particle_finished(
                 [invasion EXCEPT !.retreating = @ \ {pid}], pid)})

\* The configuration is reloaded.
InvasionApplyConfig ==
    \E config \in InvasionConfigs :
        InvasionStep("apply_config", {apply_config(invasion, config)})

InvasionShutdown ==
    /\ invasion.op # "shutdown"
    /\ InvasionStep("shutdown", {shutdown(invasion)})

InvasionNext ==
    \/ InvasionIdleTimeUpdated
    \/ InvasionUserActive
    \/ InvasionSpawnTick
    \/ InvasionFinishRetreat
    \/ InvasionParticleFinished
    \/ InvasionApplyConfig
    \/ InvasionShutdown

(***************************************************************************)
(* ai/screen_commentator.py: the sessions of the ScreenCommentator.        *)
(* Director.request_screen_commentary() cancels the current session on the *)
(* main thread and starts a thread that runs comment_on_screen(); the      *)
(* session lock is held only inside cancel_current_session,                *)
(* _start_new_session and _is_session_active, so a thread's statements     *)
(* between two of these are interleaved with the other threads'.           *)
(***************************************************************************)
\*   pc         - "idle": no call running; "spawned": the thread is
\*                started; "started": the session id is taken;
\*                "streaming": between two chunks; "checked": the
\*                activity test of the chunk has passed
\*   session_id - the session id of the running call
SessionThreads == 1 .. MaxThreads

NoSession == [pc |-> "idle", session_id |-> 0]

\* active_session_id is 0 after construction (line 68).  spoke remembers
\* the latest speak() of a session: its session id and the active session
\* id at that moment.
ScreenCommentatorInit ==
    [active_session_id |-> 0,
     threads |-> [t \in SessionThreads |-> NoSession],
     spoke |-> [session_id |-> 0, active |-> 0],
     op |-> "none"]

\* ScreenCommentator.cancel_current_session
cancel_current_session(c) ==
    [c EXCEPT !.active_session_id = @ + 1]

\* ScreenCommentator._start_new_session, for the call of thread t
start_new_session(c, t) ==
    [c EXCEPT !.active_session_id = @ + 1,
              !.threads[t] = [pc |-> "started", session_id |-> c.active_session_id + 1]]

\* ScreenCommentator._is_session_active
is_session_active(c, session_id) == c.active_session_id = session_id

\* self._audio.speak(...) of thread t's session
session_speak(c, t) ==
    [c EXCEPT !.spoke = [session_id |-> c.threads[t].session_id,
                         active |-> c.active_session_id]]

CommentatorFrame ==
    UNCHANGED <<fsmVars, audioVars, dirVars, cthread, scriptVars,
                shadow, mood, detector, scheduler, monitor, invasion, inbox>>

CommentatorStep(op, c) ==
    /\ commentator' = [c EXCEPT !.op = op]
    /\ CommentatorFrame

\* Director.request_screen_commentary on the main thread (lines 277-298):
\* the current session is cancelled and thread t is started.
RequestScreenCommentary(t) ==
    /\ commentator.threads[t].pc = "idle"
    /\ commentator.active_session_id < MaxSession
    /\ CommentatorStep("request_screen_commentary",
                       [cancel_current_session(commentator)
                           EXCEPT !.threads[t].pc = "spawned"])

\* comment_on_screen, line 100: the session is started.
SessionStart(t) ==
    /\ commentator.threads[t].pc = "spawned"
    /\ commentator.active_session_id < MaxSession
    /\ CommentatorStep("start_new_session", start_new_session(commentator, t))

\* comment_on_screen, lines 108-111: interrupt(), and speak() of the
\* preamble text if one is configured.
SessionPreamble(t) ==
    /\ commentator.threads[t].pc = "started"
    /\ \E preamble_text \in BOOLEAN :
          CommentatorStep(IF preamble_text THEN "speak" ELSE "interrupt",
                          [(IF preamble_text THEN session_speak(commentator, t)
                            ELSE commentator)
                              EXCEPT !.threads[t].pc = "streaming"])

\* The activity test before a chunk is spoken (lines 209-210, 222-223, 235, 243): a
\* superseded session returns.
SessionCheck(t) ==
    /\ commentator.threads[t].pc = "streaming"
    /\ CommentatorStep("is_session_active",
                       IF is_session_active(commentator,
                                            commentator.threads[t].session_id)
                       THEN [commentator EXCEPT !.threads[t].pc = "checked"]
                       ELSE [commentator EXCEPT !.threads[t] = NoSession])

\* The speak() that follows the test (lines 227, 236, 244).
SessionSpeak(t) ==
    /\ commentator.threads[t].pc = "checked"
    /\ CommentatorStep("speak",
                       [session_speak(commentator, t)
                           EXCEPT !.threads[t].pc = "streaming"])

\* The stream is exhausted with nothing left to speak; the call returns.
SessionReturn(t) ==
    /\ commentator.threads[t].pc = "streaming"
    /\ CommentatorStep("return", [commentator EXCEPT !.threads[t] = NoSession])

CommentatorNext ==
    \E t \in SessionThreads :
        \/ RequestScreenCommentary(t)
        \/ SessionStart(t)
        \/ SessionPreamble(t)
        \/ SessionCheck(t)
        \/ SessionSpeak(t)
        \/ SessionReturn(t)

(***************************************************************************)
(* The idle loop of Director and IdleMonitor.  bind_idle_monitor (lines    *)
(* 218-224 of director.py) connects user_idle_confirmed and                *)
(* user_active_detected, emitted on the monitor's thread, to on_user_idle  *)
(* and on_user_active on the main thread: the signals are queued.  The     *)
(* Director calls reset_to_standby and set_threshold_ms on the monitor     *)
(* from the main thread.                                                   *)
(***************************************************************************)
\*   queue - the signals emitted and not yet handled
\*   owed  - user_active_detected has been handled and the monitor has not
\*           been in STANDBY since
InboxInit == [queue |-> <<>>, owed |-> FALSE]

\* The operation that left the Director as d made the call what.
Noted(d, what) == \E i \in 1 .. Len(d.notes) : d.notes[i] = what

\* IdleMonitor.reset_to_standby as one step.  A write of the monitor's
\* thread that falls between the comparison and the write of _set_state
\* leaves _state as the same write just before the call leaves it, so the
\* steps of the monitor's thread are interleaved with the call as a whole.
monitor_reset_to_standby(m) ==
    LET m1 == reset_to_standby_check(m)
    IN  IF m1.rpc = "write" THEN reset_to_standby_write(m1) ELSE m1

\* The calls of that operation on the IdleMonitor m: set_threshold_ms with
\* the jittered threshold, and reset_to_standby.
MonitorCalled(m, d, threshold_ms) ==
    LET m1 == IF Noted(d, "arm_idle_threshold_with_jitter")
              THEN set_threshold_ms(m, threshold_ms) ELSE m
    IN  IF Noted(d, "idle_monitor.reset_to_standby")
        THEN monitor_reset_to_standby(m1) ELSE m1

\* The thresholds the jitter can give that operation to set, or the one
\* the monitor has when the operation sets none.
Jittered(d) ==
    IF Noted(d, "arm_idle_threshold_with_jitter")
    THEN Thresholds ELSE {monitor.threshold_ms}

\* What the operations of the loop find: none of them looks for a
\* scripted-entrance asset.
LoopEnv == {e \in CallEnv : e.asset}

\* What on_user_idle finds: a paused Director does not ask for the presence.
LoopPresence(paused) == IF paused THEN {"UNKNOWN"} ELSE PresenceState

LoopFrame ==
    UNCHANGED <<callbacks, fsm_last, audioVars, cthread, scriptVars,
                shadow, mood, detector, scheduler, invasion, commentator>>

\* Idle times below ACTIVE_RESET_MS, and at or above the pre-idle time and
\* the threshold of one or both of Thresholds.
LoopIdleTimes == {0, 192000, 240000}

\* The monitor m without what its record remembers of past signals and of
\* overlapping calls, and, between two polls, without the locals of the
\* poll that is over.
Forgetful(m) ==
    IF m.pc = "sleep"
    THEN [m EXCEPT !.emitted = <<>>, !.raced = FALSE,
                   !.idle_ms = 0, !.matched = "STANDBY",
                   !.target = "none", !.signal = "none"]
    ELSE [m EXCEPT !.emitted = <<>>, !.raced = FALSE]

\* The monitor becomes m, the queue q; delivered tells that
\* user_active_detected is handled in this step.
LoopMonitor(m, q, delivered) ==
    /\ monitor' = Forgetful(m)
    /\ inbox' = [queue |-> q,
                 owed |-> (inbox.owed \/ delivered) /\ m.state # "STANDBY"]

\* The main thread runs the Director's operation op to its end; the record
\* of the calls it made is dropped once the calls on the monitor are made.
LoopStep(op, e, called, paused, presence, q) ==
    \E d \in {called} :
    /\ director' = CalledOf(d)
    /\ current_state' = d.state
    /\ dlast' = [op |-> op, from |-> director.state, asset |-> FALSE,
                 traj |-> FALSE, ret |-> d.ret, paused |-> FALSE,
                 presence |-> "UNKNOWN", player |-> "current"]
    /\ \E threshold_ms \in Jittered(d) :
       \E m \in {MonitorCalled(monitor, d, threshold_ms)} :
          LoopMonitor(m, q, op = "on_user_active")
    /\ LoopFrame

\* user_idle_confirmed reaches Director.on_user_idle.
LoopUserIdle ==
    /\ inbox.queue # <<>>
    /\ Head(inbox.queue) = "user_idle_confirmed"
    /\ \E e \in LoopEnv, paused \in BOOLEAN :
       \E presence \in LoopPresence(paused) :
          LoopStep("on_user_idle", e,
                   on_user_idle(Called, e, paused, presence),
                   paused, presence, Tail(inbox.queue))

\* user_active_detected reaches Director.on_user_active.
LoopUserActive ==
    /\ inbox.queue # <<>>
    /\ Head(inbox.queue) = "user_active_detected"
    /\ \E e \in LoopEnv :
          LoopStep("on_user_active", e, on_user_active(Called, e),
                   FALSE, "UNKNOWN", Tail(inbox.queue))

LoopAutoDismissTimeout ==
    /\ director.auto_dismiss_active
    /\ \E e \in LoopEnv :
          LoopStep("on_auto_dismiss_timeout", e,
                   on_auto_dismiss_timeout(
                       [Called EXCEPT !.auto_dismiss_active = FALSE], e),
                   FALSE, "UNKNOWN", inbox.queue)

LoopFleeFinished ==
    /\ director.flee_running
    /\ \E e \in LoopEnv :
          LoopStep("on_flee_finished", e,
                   on_flee_finished([Called EXCEPT !.flee_running = FALSE,
                                                   !.window_visible = FALSE], e),
                   FALSE, "UNKNOWN", inbox.queue)

\* The monitor's thread.
LoopPollRead ==
    \E idle_ms \in LoopIdleTimes :
        /\ monitor.pc = "sleep"
        /\ LoopMonitor(poll_read(monitor, idle_ms), inbox.queue, FALSE)
        /\ UNCHANGED <<fsmVars, dirVars>>
        /\ LoopFrame

LoopPollCheck ==
    /\ monitor.pc = "matched"
    /\ LoopMonitor(update_state_check(monitor), inbox.queue, FALSE)
    /\ UNCHANGED <<fsmVars, dirVars>>
    /\ LoopFrame

LoopPollWrite ==
    /\ monitor.pc = "write"
    /\ LoopMonitor(set_state_write(monitor), inbox.queue, FALSE)
    /\ UNCHANGED <<fsmVars, dirVars>>
    /\ LoopFrame

\* The emit queues the signal for the main thread.
LoopPollEmit ==
    /\ monitor.pc = "emit"
    /\ monitor.signal # "none" => Len(inbox.queue) < MaxInbox
    /\ LoopMonitor(update_state_emit(monitor),
                   IF monitor.signal = "none" THEN inbox.queue
                   ELSE Append(inbox.queue, monitor.signal), FALSE)
    /\ UNCHANGED <<fsmVars, dirVars>>
    /\ LoopFrame

LoopNext ==
    \/ LoopUserIdle
    \/ LoopUserActive
    \/ LoopAutoDismissTimeout
    \/ LoopFleeFinished
    \/ LoopPollRead
    \/ LoopPollCheck
    \/ LoopPollWrite
    \/ LoopPollEmit
(***************************************************************************)
(* Specifications: one per subsystem, the other subsystems standing still. *)
(***************************************************************************)
\* The AudioManager and the Director as they are when they stand still.
AudioAtRest == AudioInit /\ am.edge_tts

DirectorAtRest == DirInit /\ director.audio_output_reactive

\* The StateMachine as the Director has set it up.
FsmOfDirector ==
    /\ current_state = "HIDDEN"
    /\ callbacks = DirectorHandlers
    /\ fsm_last = [op |-> "none", from |-> "HIDDEN", to |-> "HIDDEN",
                   ret |-> TRUE, events |-> <<>>]

\* No screen commentary has been requested.
CommentaryAtRest == cthread = CommentaryIdle

\* The ScriptEngine with its pools empty; nothing selected or matched yet.
ScriptsAtRest ==
    /\ engine = ScriptEngineInit({}, {})
    /\ sel = NoSelection
    /\ tr = NoProbe

\* No second run is followed.
ShadowAtRest == shadow = DirectorNew(TRUE)

\* The MoodSystem with its default mood.
MoodAtRest == mood = MoodSystemInit(50)

\* The PresenceDetector before its first call.
DetectorAtRest == detector = PresenceDetectorInit

\* The ResourceScheduler before its first call.
SchedulerAtRest == scheduler = ResourceSchedulerInit

\* The IdleMonitor before its thread runs.
MonitorAtRest == monitor = IdleMonitorInit

\* The IdleInvasionController after construction.
InvasionAtRest == invasion = IdleInvasionControllerInit(DefaultInvasionConfig)

\* The ScreenCommentator with no session started.
CommentatorAtRest == commentator = ScreenCommentatorInit

\* No signal of the IdleMonitor is waiting for the main thread.
InboxAtRest == inbox = InboxInit

PartsAtRest ==
    /\ ShadowAtRest
    /\ MoodAtRest
    /\ DetectorAtRest
    /\ SchedulerAtRest
    /\ MonitorAtRest
    /\ InvasionAtRest
    /\ CommentatorAtRest
    /\ InboxAtRest

\* Everything but the AudioManager, the StateMachine and the Director.
OthersAtRest == CommentaryAtRest /\ ScriptsAtRest /\ PartsAtRest

InitFSM == FsmInit /\ AudioAtRest /\ DirectorAtRest /\ OthersAtRest

InitAudio == AudioInit /\ FsmInit /\ DirectorAtRest /\ OthersAtRest

InitRace == AudioAtRest /\ FsmInit /\ DirectorAtRest /\ OthersAtRest

InitDirector == DirInit /\ AudioAtRest /\ FsmOfDirector /\ OthersAtRest

SpecFSM == InitFSM /\ [][FsmNext]_vars

\* Every AudioManager call is made on the main thread.
SpecAudio == InitAudio /\ [][AudioNext]_vars

\* The main thread and the screen-commentary thread both call the
\* AudioManager; a TTS backend is installed.
SpecRace == InitRace /\ [][RaceNext]_vars

\* The Director drives its StateMachine; the AudioManager is seen through
\* the calls the Director makes on it.
SpecDirector == InitDirector /\ [][DirectorNext]_vars

\* Two runs of the Director on the same events, the second with its
\* behaviour mode overwritten at will.
InitModes ==
    /\ DirInit /\ shadow = director
    /\ AudioAtRest /\ FsmOfDirector /\ CommentaryAtRest /\ ScriptsAtRest
    /\ MoodAtRest /\ DetectorAtRest
    /\ SchedulerAtRest
    /\ MonitorAtRest
    /\ InvasionAtRest
    /\ CommentatorAtRest
    /\ InboxAtRest

SpecModes == InitModes /\ [][ModesNext]_vars

\* The Director when the trajectory timeout, a QTimer of the event loop,
\* fires whenever it stays armed; the player's finished signal may never
\* come.
SpecEntrance ==
    InitDirector /\ [][DirectorNext]_vars /\ WF_vars(VoiceTrajectoryTimeout)

\* The main thread and the screen-commentary thread both call speak() and
\* interrupt(); the commentary thread's calls are interleaved statement by
\* statement with the main thread's.
InitCommentary == AudioAtRest /\ FsmInit /\ DirectorAtRest /\ OthersAtRest

SpecCommentary == InitCommentary /\ [][CommentaryNext]_vars

\* The ScriptEngine with each pool made of some of the scripts.
InitScripts ==
    /\ ScriptInit /\ AudioAtRest /\ FsmInit /\ DirectorAtRest
    /\ CommentaryAtRest /\ PartsAtRest

SpecScripts == InitScripts /\ [][ScriptNext]_vars

\* matches_time_range on its own.
InitTimeRange ==
    /\ ScriptsAtRest /\ AudioAtRest /\ FsmInit /\ DirectorAtRest
    /\ CommentaryAtRest /\ PartsAtRest

SpecTimeRange == InitTimeRange /\ [][TimeRangeNext]_vars

\* The Director, the StateMachine, the AudioManager, the commentary thread
\* and the ScriptEngine standing still.
CoreAtRest ==
    /\ DirectorAtRest /\ FsmInit /\ AudioAtRest
    /\ CommentaryAtRest /\ ScriptsAtRest

\* The MoodSystem built with any initial mood and called in any order.
InitMood ==
    /\ MoodInit /\ CoreAtRest /\ ShadowAtRest /\ DetectorAtRest
    /\ SchedulerAtRest
    /\ MonitorAtRest
    /\ InvasionAtRest
    /\ CommentatorAtRest
    /\ InboxAtRest

SpecMood == InitMood /\ [][MoodNext]_vars

\* The PresenceDetector called with any idle time and gaze observation.
InitPresence ==
    /\ DetectorAtRest /\ CoreAtRest /\ ShadowAtRest /\ MoodAtRest
    /\ SchedulerAtRest
    /\ MonitorAtRest
    /\ InvasionAtRest
    /\ CommentatorAtRest
    /\ InboxAtRest

SpecPresence == InitPresence /\ [][PresenceNext]_vars

\* The ResourceScheduler called with any inputs and clock readings.
InitScheduler ==
    /\ SchedulerAtRest /\ CoreAtRest /\ ShadowAtRest /\ MoodAtRest
    /\ DetectorAtRest /\ MonitorAtRest
    /\ InvasionAtRest
    /\ CommentatorAtRest
    /\ InboxAtRest

SpecScheduler == InitScheduler /\ [][SchedulerNext]_vars

\* The IdleMonitor's poll loop on its thread, and the orchestration thread
\* calling reset_to_standby and set_threshold_ms on it.
InitMonitor ==
    /\ MonitorAtRest /\ CoreAtRest /\ ShadowAtRest /\ MoodAtRest
    /\ DetectorAtRest /\ SchedulerAtRest /\ InvasionAtRest
    /\ CommentatorAtRest
    /\ InboxAtRest

SpecMonitor == InitMonitor /\ [][MonitorNext]_vars

\* The IdleInvasionController under its signals, timers and public calls.
InitInvasion ==
    /\ InvasionInit /\ CoreAtRest /\ ShadowAtRest /\ MoodAtRest
    /\ DetectorAtRest /\ SchedulerAtRest /\ MonitorAtRest
    /\ CommentatorAtRest
    /\ InboxAtRest

SpecInvasion == InitInvasion /\ [][InvasionNext]_vars

\* The ScreenCommentator: the main thread requests commentaries, each of
\* which runs comment_on_screen on a thread of its own.
InitCommentator ==
    /\ CommentatorAtRest /\ CoreAtRest /\ ShadowAtRest /\ MoodAtRest
    /\ DetectorAtRest /\ SchedulerAtRest /\ MonitorAtRest
    /\ InvasionAtRest /\ InboxAtRest

SpecCommentator == InitCommentator /\ [][CommentatorNext]_vars

\* The idle loop: the IdleMonitor polls on its thread, its signals are
\* queued to the main thread, where the Director handles them and calls
\* the IdleMonitor back.
InitLoop ==
    /\ DirectorAtRest /\ FsmOfDirector /\ AudioAtRest
    /\ CommentaryAtRest /\ ScriptsAtRest
    /\ ShadowAtRest /\ MoodAtRest /\ DetectorAtRest /\ SchedulerAtRest
    /\ MonitorAtRest /\ InvasionAtRest /\ CommentatorAtRest /\ InboxAtRest

\* The event loop of the main thread handles a queued signal, and the
\* flee_completed signal of a running flight, that waits for it.
SpecLoop ==
    /\ InitLoop /\ [][LoopNext]_vars
    /\ WF_vars(LoopUserIdle) /\ WF_vars(LoopUserActive)
    /\ WF_vars(LoopFleeFinished)

(***************************************************************************)
(* C1 (original statement): when only non-interrupting speak() calls are   *)
(* made, audio is played in the order of the stable sort by (priority,     *)
(* sequence number): each audio that starts sorts after the one that       *)
(* started before it.                                                      *)
(***************************************************************************)
C1_Original ==
    [][(obs'.plain /\ am'.playing /\ am'.source # am.source
            /\ am.source # NoItem)
          => KeyLess(am.source, am'.source)]_vars

(***************************************************************************)
(* C1 (amended): when only non-interrupting speak() calls are made, audio  *)
(* that becomes ready while nothing plays starts at once, audio that       *)
(* becomes ready during a playback waits in the pending heap, and when a   *)
(* playback ends the pending entry with the least (priority, sequence      *)
(* number) is played next.                                                 *)
(***************************************************************************)
C1_Amended ==
    [][obs'.plain =>
          /\ (am'.playback_heap \ am.playback_heap # {})
                => /\ am.playing /\ am'.playing
                   /\ am'.source = am.source
          /\ (am'.playing /\ am'.source # am.source)
                => IF am.playing
                   THEN /\ MediaEnd
                        /\ am'.source \in am.playback_heap
                        /\ \A y \in am.playback_heap \ {am'.source} :
                              KeyLess(am'.source, y)
                        /\ am'.playback_heap = am.playback_heap \ {am'.source}
                   ELSE /\ am'.source \notin am.playback_heap
                        /\ am'.playback_heap = am.playback_heap
          /\ (MediaEnd /\ am.playback_heap # {}) => am'.playing
       ]_vars

\* Only plain speak() calls so far; a playback has just ended and the entry
\* played next is not the oldest pending one: an older entry of lower
\* priority is still waiting.
C1_Witness ==
    /\ obs.plain
    /\ obs.op = "media_end"
    /\ am.playing
    /\ \E y \in am.playback_heap :
          y.order < am.source.order /\ y.priority > am.source.priority

(***************************************************************************)
(* C2: in every reachable state the audio being played carries the live    *)
(* token (no stale audio starts, nothing keeps playing across a token      *)
(* bump).                                                                  *)
(***************************************************************************)
C2_NoStalePlayback ==
    am.playing => am.source.token = am.token

\* The play_script calls among the AudioManager calls of the last operation.
PlayScriptCalls ==
    {i \in DOMAIN director.calls : director.calls[i].fn = "play_script"}

(***************************************************************************)
(* C3: summon_now() called in HIDDEN when no scripted entrance is          *)
(* available (no asset, no trajectory playing) returns true, leaves the    *)
(* FSM in ENGAGED and has issued exactly one play_script request.          *)
(***************************************************************************)
C3_SummonSpeaksOnce ==
    ( /\ dlast.op = "summon_now"
      /\ dlast.from = "HIDDEN"
      /\ ~dlast.asset
      /\ ~dlast.traj )
       => /\ dlast.ret
          /\ current_state = "ENGAGED"
          /\ Cardinality(PlayScriptCalls) = 1

(***************************************************************************)
(* C4: a transition_to outside the adjacency table is a no-op that returns *)
(* false (original statement, self-pairs counted as outside the table).    *)
(***************************************************************************)
C4_Original ==
    (fsm_last.op = "transition_to" /\ ~InTable(fsm_last.from, fsm_last.to))
        => /\ fsm_last.ret = FALSE
           /\ current_state = fsm_last.from
           /\ fsm_last.events = <<>>

(***************************************************************************)
(* C4 (amended): for s1 # s2 outside the table transition_to(s2) returns   *)
(* false, keeps the state, runs no callback and emits nothing; for s1 = s2 *)
(* it returns true and also changes nothing; the state only ever changes   *)
(* along an edge of the table.                                             *)
(***************************************************************************)
C4_Amended ==
    fsm_last.op = "transition_to" =>
        /\ (fsm_last.from # fsm_last.to /\ ~InTable(fsm_last.from, fsm_last.to))
              => /\ fsm_last.ret = FALSE
                 /\ current_state = fsm_last.from
                 /\ fsm_last.events = <<>>
        /\ fsm_last.from = fsm_last.to
              => /\ fsm_last.ret = TRUE
                 /\ current_state = fsm_last.from
                 /\ fsm_last.events = <<>>
        /\ current_state # fsm_last.from
              => /\ InTable(fsm_last.from, current_state)
                 /\ current_state = fsm_last.to

\* An illegal, non-self transition was attempted while both callbacks that
\* a legal transition would have run are registered.
C4_Witness ==
    /\ fsm_last.op = "transition_to"
    /\ fsm_last.from # fsm_last.to
    /\ ~InTable(fsm_last.from, fsm_last.to)
    /\ callbacks[fsm_last.from].exit
    /\ callbacks[fsm_last.to].enter
    /\ fsm_last.ret = FALSE

(***************************************************************************)
(* C5: a legal transition runs the old state's exit callback (current      *)
(* state still old), updates the state, runs the new state's enter         *)
(* callback (current state already new), then emits state_changed(old,     *)
(* new), in that order, and returns true.                                  *)
(***************************************************************************)
C5_Order ==
    (fsm_last.op = "transition_to" /\ InTable(fsm_last.from, fsm_last.to)) =>
        LET old == fsm_last.from
            new == fsm_last.to
            expExit == IF callbacks[old].exit
                       THEN <<[kind |-> "exit", from |-> old, to |-> new, cur |-> old]>>
                       ELSE <<>>
            expEnter == IF callbacks[new].enter
                        THEN <<[kind |-> "enter", from |-> old, to |-> new, cur |-> new]>>
                        ELSE <<>>
            expNotify == <<[kind |-> "state_changed", from |-> old, to |-> new, cur |-> new]>>
        IN  /\ fsm_last.ret = TRUE
            /\ current_state = new
            /\ fsm_last.events = expExit \o expEnter \o expNotify

\* A legal transition with both callbacks registered has just run.
C5_Witness ==
    /\ fsm_last.op = "transition_to"
    /\ InTable(fsm_last.from, fsm_last.to)
    /\ callbacks[fsm_last.from].exit
    /\ callbacks[fsm_last.to].enter
    /\ Len(fsm_last.events) = 3

\* A step in which speak() or play_script() is called.
RequestStep ==
    /\ obs'.op \in {"speak", "play_script"}
    /\ worker' = worker
    /\ mainQ' = mainQ
    /\ Len(am'.to_worker) >= Len(am.to_worker)

\* Every request that exists somewhere in the pipeline.
PipelineItems(a, w, q) ==
    a.playback_heap
        \cup {q[i] : i \in DOMAIN q}
        \cup {a.to_worker[i].task :
                 i \in {j \in DOMAIN a.to_worker :
                           a.to_worker[j].kind = "enqueue_task"}}
        \cup w.queue
        \cup (IF w.inflight # NoItem THEN {w.inflight} ELSE {})
        \cup (IF a.playing THEN {a.source} ELSE {})

(***************************************************************************)
(* C6 (original statement): every speak() or play_script() request (the    *)
(* text not blank) with CRITICAL priority or interrupt=True stops the      *)
(* playback, empties the pending heap and increments the token before it   *)
(* is resolved.                                                            *)
(***************************************************************************)
C6_Original ==
    [][(RequestStep /\ obs'.intr /\ obs'.outcome # "blank")
          => /\ am'.token = am.token + 1
             /\ am'.playback_heap = {}
             /\ am'.playing => am'.source.order = am'.task_seq
      ]_vars

(***************************************************************************)
(* C6 (amended): a play_script() request, or a speak() request that the    *)
(* LOW rule does not drop, with non-blank text and CRITICAL priority or    *)
(* interrupt=True stops the playback, empties the pending heap and         *)
(* increments the token before it is resolved, so that after the call the  *)
(* new request is the only one that carries the live token; audio starts   *)
(* only with the live token and the token never decreases, hence no audio  *)
(* of an earlier request can start afterwards.  A blank text, and a LOW    *)
(* speak() made while something plays or is pending, interrupt nothing.    *)
(***************************************************************************)
C6_Amended ==
    [][/\ (RequestStep /\ obs'.intr)
            => IF \/ obs'.outcome = "blank"
                  \/ /\ obs'.op = "speak" /\ obs'.low
                     /\ (am.playing \/ am.playback_heap # {})
               THEN /\ am'.token = am.token
                    /\ am'.task_seq = am.task_seq
                    /\ am'.playing = am.playing
                    /\ am'.source = am.source
                    /\ am'.playback_heap = am.playback_heap
                    /\ am'.to_worker = am.to_worker
               ELSE /\ am'.token = am.token + 1
                    /\ am'.task_seq = am.task_seq + 1
                    /\ am'.playback_heap = {}
                    /\ am'.playing => am'.source.order = am'.task_seq
                    /\ \E i \in DOMAIN am'.to_worker :
                          /\ am'.to_worker[i] = InvalidateMsg(am'.token)
                          /\ i > Len(am.to_worker)
                    /\ \A x \in PipelineItems(am', worker', mainQ') :
                          x.token = am'.token => x.order = am'.task_seq
       /\ am'.token >= am.token
       /\ (am'.playing /\ (am'.source # am.source \/ ~am.playing))
             => am'.source.token = am'.token
       /\ \A x \in PipelineItems(am', worker', mainQ') :
             x.token <= am'.token /\ x.order <= am'.task_seq
      ]_vars

\* An interrupting request has just been accepted and is playing, while an
\* earlier request is still somewhere in the pipeline.
C6_Witness ==
    /\ obs.op \in {"speak", "play_script"}
    /\ obs.intr
    /\ obs.outcome = "started"
    /\ am.playing
    /\ \E x \in PipelineItems(am, worker, mainQ) : x.token < am.token

(***************************************************************************)
(* C7 (original statement): a LOW speak() made while something is playing, *)
(* pending in the heap or still awaiting synthesis is dropped: token,      *)
(* sequence counter, heap, playback and the worker's inbox are unchanged.  *)
(***************************************************************************)
C7_Original ==
    [][( /\ RequestStep
         /\ obs'.op = "speak"
         /\ obs'.low
         /\ PipelineItems(am, worker, mainQ) # {} )
          => /\ am'.task_seq = am.task_seq
             /\ am'.token = am.token
             /\ am'.playback_heap = am.playback_heap
             /\ am'.playing = am.playing
             /\ am'.source = am.source
             /\ am'.to_worker = am.to_worker
      ]_vars

(***************************************************************************)
(* C7 (amended): a LOW speak() with non-blank text is dropped exactly when *)
(* the player is playing or the pending-playback heap is not empty; a      *)
(* dropped request leaves token, sequence counter, heap, playback and the  *)
(* worker's inbox unchanged and emits nothing; requests that only await    *)
(* synthesis or delivery do not cause a drop.                              *)
(***************************************************************************)
C7_Amended ==
    [][(RequestStep /\ obs'.op = "speak" /\ obs'.low)
          => IF am.playing \/ am.playback_heap # {}
             THEN /\ obs'.outcome = "dropped"
                  /\ am'.task_seq = am.task_seq
                  /\ am'.token = am.token
                  /\ am'.playback_heap = am.playback_heap
                  /\ am'.playing = am.playing
                  /\ am'.source = am.source
                  /\ am'.to_worker = am.to_worker
                  /\ am'.emitted = <<>>
             ELSE /\ obs'.outcome # "dropped"
                  /\ am'.task_seq = am.task_seq + 1
      ]_vars

\* A LOW speak() has just been dropped while one audio plays and another
\* waits in the heap.
C7_Witness ==
    /\ obs.op = "speak"
    /\ obs.low
    /\ obs.outcome = "dropped"
    /\ am.playing
    /\ am.playback_heap # {}

(***************************************************************************)
(* C8: when a playback ends, the pending entry with the least (priority,   *)
(* sequence number) among those carrying the live token is played next,    *)
(* the stale entries popped before it are dropped without being played,    *)
(* and playback_finished is emitted exactly when the heap holds no live    *)
(* entry (the heap is then left empty).                                    *)
(***************************************************************************)
C8_PlayNext ==
    [][(obs'.op = "media_end" /\ MediaEnd) =>
          LET live == {x \in am.playback_heap : x.token = am.token}
          IN  IF live = {}
              THEN /\ ~am'.playing
                   /\ am'.source = am.source
                   /\ am'.playback_heap = {}
                   /\ am'.emitted = <<"playback_finished">>
              ELSE \E x \in live :
                      /\ \A y \in live \ {x} : KeyLess(x, y)
                      /\ am'.playing
                      /\ am'.source = x
                      /\ am'.emitted = <<"playback_started">>
                      /\ am'.playback_heap =
                            {y \in am.playback_heap : KeyLess(x, y)}
      ]_vars

\* A playback has just ended; stale entries were dropped on the way to the
\* live entry that is playing now.
C8_Witness ==
    /\ obs.op = "media_end"
    /\ obs.outcome = "next"
    /\ obs.discarded > 0
    /\ am.playing
    /\ am.source.token = am.token

\* An invalidation or a task of a newer token is on its way to the worker.
InvalidationPending ==
    \E i \in DOMAIN am.to_worker : am.to_worker[i].token > worker.active_token

\* The worker takes a task up: it enters the synthesis call or emits the
\* cached result.
WorkerBegins ==
    \/ (worker.inflight = NoItem /\ worker'.inflight # NoItem)
    \/ (worker.inflight = NoItem /\ Len(mainQ') > Len(mainQ))

TaskBegun ==
    IF worker'.inflight # NoItem THEN worker'.inflight
    ELSE mainQ'[Len(mainQ')]

(***************************************************************************)
(* C9 (original statement): the worker never begins the work on a task     *)
(* whose token differs from the live token of the AudioManager.            *)
(***************************************************************************)
C9_Original ==
    [][WorkerBegins => TaskBegun.token = am.token]_vars

(***************************************************************************)
(* C9 (amended): each task the worker takes up is the least (priority,     *)
(* sequence number) of the tasks in its queue at that moment and carries   *)
(* the worker's own active token, which equals the AudioManager's live     *)
(* token unless an invalidation is still on its way to the worker; every   *)
(* result is delivered with the token, priority and sequence number of its *)
(* task.                                                                   *)
(***************************************************************************)
C9_Amended ==
    [][/\ WorkerBegins =>
             /\ TaskBegun \in worker.queue
             /\ \A y \in worker.queue \ {TaskBegun} : KeyLess(TaskBegun, y)
             /\ worker'.queue = worker.queue \ {TaskBegun}
             /\ TaskBegun.token = worker.active_token
             /\ ~InvalidationPending => TaskBegun.token = am.token
       /\ Len(mainQ') > Len(mainQ) =>
             /\ mainQ' = Append(mainQ, mainQ'[Len(mainQ')])
             /\ worker.inflight # NoItem
                   => mainQ'[Len(mainQ')] = worker.inflight
       /\ \A x \in worker'.queue : x.token = worker'.active_token
      ]_vars

\* The worker is synthesizing a task while an older task of lower priority
\* waits in its queue.
C9_Witness ==
    /\ worker.inflight # NoItem
    /\ \E y \in worker.queue :
          y.order < worker.inflight.order /\ y.priority > worker.inflight.priority

(***************************************************************************)
(* C10: a second interrupt() that directly follows an interrupt() finds    *)
(* and leaves the pending heap empty and the playback stopped.             *)
(***************************************************************************)
C10_Idempotent ==
    [][( /\ obs.op = "interrupt" /\ obs.outcome = "full"
         /\ obs'.op = "interrupt" /\ obs'.outcome = "full"
         /\ am'.token = am.token + 1 )
          => /\ am.playback_heap = {} /\ ~am.playing
             /\ am'.playback_heap = {} /\ ~am'.playing
             /\ am'.source = am.source
             /\ am'.task_seq = am.task_seq
      ]_vars

\* interrupt() has just been called for the second time in a row.
C10_Witness ==
    /\ obs.op = "interrupt"
    /\ obs.outcome = "full"
    /\ obs.repeat
    /\ ~am.playing
    /\ am.playback_heap = {}
    /\ am.token >= 2

(***************************************************************************)
(* C11: a synthesis failure is swallowed.  The step in which a synthesis   *)
(* fails delivers no audio-ready event, removes the failed task from the   *)
(* pipeline for good (no retry), leaves the worker running and not         *)
(* processing, keeps the other queued tasks and the AudioManager           *)
(* untouched, and leaves a drain scheduled whenever a task is queued; the  *)
(* tasks still queued carry the worker's active token.                     *)
(***************************************************************************)
C11_FailureSwallowed ==
    [][(worker'.last = "failed" /\ worker.inflight # NoItem) =>
          /\ mainQ' = mainQ
          /\ am' = am
          /\ worker.inflight \notin PipelineItems(am', worker', mainQ')
          /\ worker'.running
          /\ ~worker'.processing
          /\ worker'.inflight = NoItem
          /\ worker'.active_token = worker.active_token
          /\ worker'.queue = worker.queue
          /\ worker'.queue # {} => worker'.drain_scheduled
          /\ \A x \in worker'.queue : x.token = worker'.active_token
      ]_vars

\* A synthesis has just failed while another task with the live token
\* waits in the worker's queue.
C11_Witness ==
    /\ worker.last = "failed"
    /\ worker.running
    /\ ~worker.processing
    /\ worker.drain_scheduled
    /\ \E x \in worker.queue : x.token = am.token
\* A step in which a request is accepted: it is given a sequence number.
RequestAccepted ==
    \/ obs'.op = "commentary_speak" /\ cthread.pc = "seq_loaded"
                                    /\ cthread'.pc = "called"
    \/ /\ RequestStep /\ cthread' = cthread
       /\ obs'.outcome \notin {"blank", "dropped"}

\* A step in which interrupt() bumps the token, or a request interrupts.
TokenBumped ==
    \/ cthread.pc = "token_loaded" /\ cthread'.pc = "called"
    \/ /\ obs'.op = "interrupt" /\ obs'.outcome = "full"
       /\ cthread' = cthread /\ worker' = worker /\ mainQ' = mainQ
    \/ /\ RequestStep /\ cthread' = cthread
       /\ obs'.intr /\ obs'.outcome \notin {"blank", "dropped"}

(***************************************************************************)
(* C12: with speak() and interrupt() called concurrently by the            *)
(* screen-commentary thread and by the main thread, every accepted request *)
(* is given a sequence number greater than all given before (the counter   *)
(* grows by one with each accepted request) and every interruption         *)
(* increments the token (no increment is lost).                            *)
(***************************************************************************)
C12_AtomicCounters ==
    [][/\ RequestAccepted => am'.task_seq = am.task_seq + 1
       /\ TokenBumped => am'.token = am.token + 1
      ]_vars
\* _last_played and _last_script_id as the last selection found them.
Before ==
    [last_played |-> sel.last_played, last_script_id |-> sel.last_script_id]

\* The scripts of the last selection's pool that match its instant, and
\* those of them that are not cooling down.
Matching == {s \in sel.source : _is_time_match(s, sel.now)}
Available == {s \in Matching : ~_is_cooling_down(Before, s, sel.now)}

IdleSelected == sel.op = "select_idle_script"

(***************************************************************************)
(* C13 (original statement): when at least one script matches the time     *)
(* window and every matching script is cooling down, select_idle_script    *)
(* returns one of them (the cooldown is given up before the                *)
(* repeat-avoidance is).                                                   *)
(***************************************************************************)
C13_Original ==
    (IdleSelected /\ Matching # {} /\ Available = {})
        => sel.result \in {s.id : s \in Matching}

(***************************************************************************)
(* C13 (amended): the last retry of the selection gives up the             *)
(* repeat-avoidance and never the cooldown.  If every script matching the  *)
(* time window is cooling down, select_idle_script returns None; and the   *)
(* script selected the time before is returned again (by a pool of more    *)
(* than one script) only when no other script of the primary pool is       *)
(* available, that is, matches the time window and is not cooling down.    *)
(***************************************************************************)
C13_Amended ==
    IdleSelected =>
        /\ (Matching # {} /\ Available = {}) => sel.result = None
        /\ ( /\ sel.result # None
             /\ sel.result = sel.last_script_id
             /\ Cardinality(sel.source) > 1 )
              => \A s \in primary_pool(sel.source, sel.now) :
                    s.id # sel.result => s \notin Available

\* select_idle_script has just returned None: scripts match the time
\* window, and each of them is cooling down.
C13_Witness ==
    /\ IdleSelected
    /\ sel.result = None
    /\ Matching # {}
    /\ Available = {}

(***************************************************************************)
(* C14: select_idle_script never returns a script that is inside its       *)
(* cooldown window (now < time of its last selection + cooldown_minutes);  *)
(* a script of the primary pool whose cooldown is over, that matches the   *)
(* time window and was not the previous selection, is among the            *)
(* candidates again.                                                       *)
(***************************************************************************)
C14_Cooldown ==
    IdleSelected =>
        /\ \A s \in sel.source :
              ( /\ sel.last_played[s.id] # NeverPlayed
                /\ s.cooldown_minutes > 0
                /\ sel.now < sel.last_played[s.id] + s.cooldown_minutes )
                 => sel.result # s.id
        /\ \A s \in primary_pool(sel.source, sel.now) :
              ( /\ s \in Matching
                /\ sel.last_played[s.id] # NeverPlayed
                /\ sel.now >= sel.last_played[s.id] + s.cooldown_minutes
                /\ s.id # sel.last_script_id )
                 => s.id \in sel.candidates

\* The script with cooldown_minutes = 10 was selected at T, another script
\* in between, and it is selected again at T + 11 minutes.
C14_Witness ==
    /\ IdleSelected
    /\ \E s \in sel.source :
          /\ s.cooldown_minutes = 10
          /\ sel.result = s.id
          /\ sel.last_played[s.id] # NeverPlayed
          /\ sel.now = sel.last_played[s.id] + 11
          /\ sel.last_script_id \notin {s.id, None}

Selected == sel.op \in {"select_idle_script", "select_panic_script"}

\* The cooldown counts for select_idle_script only.
Usable == IF IdleSelected THEN Available ELSE Matching

(***************************************************************************)
(* C15 (original statement): a selection from a non-empty pool returns a   *)
(* script of the pool, whatever the time of day and the history.           *)
(***************************************************************************)
C15_Original ==
    (Selected /\ sel.source # {}) => sel.result \in {s.id : s \in sel.source}

(***************************************************************************)
(* C15 (amended): a selection returns None when the pool is empty and when *)
(* no script of the pool matches the time of day and (for                  *)
(* select_idle_script) is outside its cooldown; whatever it returns is     *)
(* such a script of the pool; and it does return a script whenever a       *)
(* default-range script is usable in this sense or, the pool holding no    *)
(* default-range script, whenever any script is.                           *)
(***************************************************************************)
C15_Amended ==
    Selected =>
        /\ sel.source = {} => sel.result = None
        /\ Usable = {} => sel.result = None
        /\ sel.result # None => sel.result \in {s.id : s \in Usable}
        /\ (default_matches(sel.source) \cap Usable # {}) => sel.result # None
        /\ (default_matches(sel.source) = {} /\ Usable # {})
              => sel.result # None

\* A selection from a non-empty pool has just returned None because no
\* script of the pool matches the time of day.
C15_Witness ==
    /\ Selected
    /\ sel.source # {}
    /\ Matching = {}
    /\ sel.result = None

(***************************************************************************)
(* C16: "default" always matches; "start-end" with start and end valid     *)
(* minutes of the day matches current iff (start <= end and start <=       *)
(* current < end) or (start > end and (current >= start or current <       *)
(* end)); so 22:00-06:00 matches 23:30 and 02:00 and not 12:00, and        *)
(* 12:00-13:00 matches 12:00 and not 13:00.                                *)
(***************************************************************************)
C16_Matches ==
    LET r == tr.range
        start == r.sh * 60 + r.sm
        end == r.eh * 60 + r.em
        current == tr.now % 1440
        valid == /\ r.sh \in 0..23 /\ r.eh \in 0..23
                 /\ r.sm \in 0..59 /\ r.em \in 0..59
    IN  /\ r.kind = "default" => tr.matches
        /\ (r.kind = "range" /\ valid) =>
              (tr.matches <=>
                 \/ (start <= end /\ start <= current /\ current < end)
                 \/ (start > end /\ (current >= start \/ current < end)))
        /\ r = Range(22, 0, 6, 0) =>
              /\ current = 23 * 60 + 30 => tr.matches
              /\ current = 2 * 60 => tr.matches
              /\ current = 12 * 60 => ~tr.matches
        /\ r = Range(12, 0, 13, 0) =>
              /\ current = 12 * 60 => tr.matches
              /\ current = 13 * 60 => ~tr.matches

\* 12:00-13:00 has just been found not to match 13:00.
C16_Witness ==
    /\ tr.range = Range(12, 0, 13, 0)
    /\ tr.now % 1440 = 13 * 60
    /\ ~tr.matches


(***************************************************************************)
(* Director.on_user_idle and the presence classification                   *)
(***************************************************************************)
\* The last operation was on_user_idle() in HIDDEN, not suppressed by a
\* fullscreen application, with one of the two classifications.
IdleCycle(presences) ==
    /\ dlast.op = "on_user_idle"
    /\ dlast.from = "HIDDEN"
    /\ ~dlast.paused
    /\ dlast.presence \in presences

\* The operation asked the AudioManager for speech.
SpeechRequested ==
    \E i \in 1..Len(director.calls) :
        director.calls[i].fn \in {"play_script", "speak"}

MoodCalls(d) ==
    SelectSeq(d.notes, LAMBDA what :
        what \in {"mood_system.on_dismissed", "mood_system.on_interacted"})

\* What on_user_active() leaves of the Director d when all it does is to
\* put the idle monitor back to standby.
OnlyRearmed(d) ==
    [d EXCEPT !.calls = <<>>, !.ret = TRUE, !.emitted = <<>>,
              !.notes = <<"idle_monitor.reset_to_standby">>]

\* C18 as stated: on_user_active() in PEEKING or ENGAGED applies exactly one
\* dismissal mood penalty and moves the FSM to FLEEING; in HIDDEN or FLEEING
\* the FSM state and the mood are unchanged and only the idle timer is
\* re-armed.
C18_Original ==
    [][dlast'.op = "on_user_active" =>
         /\ director.state \in {"PEEKING", "ENGAGED"} =>
               /\ MoodCalls(director') = <<"mood_system.on_dismissed">>
               /\ director'.state = "FLEEING"
         /\ director.state \in {"HIDDEN", "FLEEING"} =>
               director' = OnlyRearmed(director)]_vars

\* The operation moved the FSM from one state to another.
MovedTo(d, old_state, new_state) ==
    \E i \in 1 .. Len(d.emitted) :
        d.emitted[i].old = old_state /\ d.emitted[i].new = new_state

\* C18 amended: as stated, except that in HIDDEN or FLEEING the behaviour
\* mode is also set to BUSY, and that a flight which completes inside the
\* call (no visible window, no screen) leaves the FSM in HIDDEN.
C18_Amended ==
    [][dlast'.op = "on_user_active" =>
         /\ director.state \in {"PEEKING", "ENGAGED"} =>
               /\ MoodCalls(director') = <<"mood_system.on_dismissed">>
               /\ MovedTo(director', director.state, "FLEEING")
               /\ director'.state = "FLEEING" \/
                     (~director'.flee_running /\ director'.state = "HIDDEN")
         /\ director.state \in {"HIDDEN", "FLEEING"} =>
               director' = OnlyRearmed([director EXCEPT !.behavior_mode = "BUSY"])]_vars

\* The user came back while the entity was engaged: penalty and flight.
C18_Witness ==
    /\ dlast.op = "on_user_active"
    /\ dlast.from = "ENGAGED"
    /\ director.state = "FLEEING"
    /\ MoodCalls(director) = <<"mood_system.on_dismissed">>

(***************************************************************************)
(* Director.summon_now                                                     *)
(***************************************************************************)
\* C19: summon_now() never changes the FSM state when called in FLEEING or
\* ENGAGED.  In FLEEING it returns false and changes nothing; in ENGAGED it
\* returns true, and the one call it makes is the restart of the
\* auto-dismiss timer with the configured duration: it does not attempt a
\* scripted entrance.
C19_SummonFrame ==
    [][dlast'.op = "summon_now" =>
         /\ director.state \in {"FLEEING", "ENGAGED"} =>
               /\ director'.state = director.state
               /\ current_state' = current_state
         /\ director.state = "FLEEING" =>
               director' = [director EXCEPT !.calls = <<>>, !.notes = <<>>,
                                            !.emitted = <<>>, !.ret = FALSE]
         /\ director.state = "ENGAGED" =>
               /\ director'.ret
               /\ director'.auto_dismiss_active
               /\ director'.notes = <<"auto_dismiss_timer.start(auto_dismiss_ms)">>
               /\ director'.calls = <<>>
               /\ director'.voice_trajectory_playing
                      = director.voice_trajectory_playing]_vars

\* A summon while the entity is engaged restarted the timer.
C19_Witness ==
    /\ dlast.op = "summon_now"
    /\ dlast.from = "ENGAGED"
    /\ director.state = "ENGAGED"
    /\ director.ret
    /\ director.notes = <<"auto_dismiss_timer.start(auto_dismiss_ms)">>

\* The last operation was summon_now() in HIDDEN.
SummonedFromHidden == dlast.op = "summon_now" /\ dlast.from = "HIDDEN"

\* That summon_now() started the scripted entrance.
EntranceStarted == ~dlast.traj /\ director.voice_trajectory_playing

Greeted ==
    \E i \in 1..Len(director.notes) :
        director.notes[i] = "gif_state_mapper.on_summoned"

C21_AutoDismiss ==
    [][/\ dlast'.op = "on_auto_dismiss_timeout" /\ director.state = "ENGAGED" =>
             /\ director'.state = "HIDDEN"
             /\ current_state' = "HIDDEN"
             /\ director'.notes = <<"mood_system.on_dismissed",
                                    "audio_manager.interrupt",
                                    "idle_monitor.reset_to_standby",
                                    "arm_idle_threshold_with_jitter">>
             /\ director'.calls = <<[fn |-> "interrupt", priority |-> CRITICAL,
                                     interrupt |-> TRUE]>>
       /\ director.state # "ENGAGED" =>
             \A e \in CallEnv : on_auto_dismiss_timeout(Called, e) = Called]_vars

\* The timer expired in ENGAGED and the entity is hidden again.
C21_Witness ==
    /\ dlast.op = "on_auto_dismiss_timeout"
    /\ dlast.from = "ENGAGED"
    /\ director.state = "HIDDEN"
    /\ MoodCalls(director) = <<"mood_system.on_dismissed">>

Precedence(d) ==
    /\ d.voice_trajectory_playing =>
          resolve_effective_behavior_mode(d) = "SUMMONING"
    /\ ~d.voice_trajectory_playing /\ d.audio_output_active =>
          resolve_effective_behavior_mode(d) = "MEDIA_PLAYING"
    /\ ~d.voice_trajectory_playing /\ ~d.audio_output_active =>
          resolve_effective_behavior_mode(d) = d.behavior_mode

\* C23: the effective behaviour mode is trajectory playing, else external
\* audio active, else the last set mode; and two runs on the same events
\* that differ only in the value of the behaviour mode are always in the
\* same FSM state and get the same result from every operation.
C23_ModeDoesNotSteer ==
    /\ Precedence(director)
    /\ Precedence(shadow)
    /\ shadow.state = director.state
    /\ shadow.ret = director.ret

\* The two runs differ in the behaviour mode after an FSM transition that
\* both made.
C23_Witness ==
    /\ shadow.behavior_mode # director.behavior_mode
    /\ dlast.from # director.state
    /\ shadow.state = director.state
    /\ director.state = "ENGAGED"

(***************************************************************************)
(* The script of an engagement                                             *)
(***************************************************************************)
\* The selections the operation asked of the ScriptEngine.
Selections(d) ==
    SelectSeq(d.notes, LAMBDA what : what = "script_engine.select_idle_script")

\* C24: on every entry into ENGAGED the Director gets the script of the
\* cycle from a fresh ScriptEngine selection, one select_idle_script call
\* per engagement, and does not reuse the script of an earlier engagement.
C24_FreshSelection ==
    [][director.state # "ENGAGED" /\ director'.state = "ENGAGED" =>
          /\ Len(Selections(director')) = 1
          /\ ~director.pending_idle_script]_vars

(***************************************************************************)
(* The mood                                                                *)
(***************************************************************************)
\* C25: after any sequence of on_interacted (+0.10), on_engaged (+0.15),
\* on_dismissed (-0.05) and natural_decay (0.02 toward 0.5) calls from any
\* initial value the mood is within [0, 1]; each call adds its step unless
\* that leaves the range, and then stops at the bound; natural_decay never
\* moves the mood across 0.5, leaves 0.5 where it is, and 25 decays in a
\* row end at 0.5.
C25_MoodBounded ==
    /\ mood.mood >= 0 /\ mood.mood <= 100
    /\ mood.last = "on_interacted" =>
          mood.mood = IF mood.prev + 10 > 100 THEN 100 ELSE mood.prev + 10
    /\ mood.last = "on_engaged" =>
          mood.mood = IF mood.prev + 15 > 100 THEN 100 ELSE mood.prev + 15
    /\ mood.last = "on_dismissed" =>
          mood.mood = IF mood.prev - 5 < 0 THEN 0 ELSE mood.prev - 5
    /\ mood.last = "natural_decay" =>
          /\ mood.prev > 50 => mood.mood >= 50 /\ mood.mood < mood.prev
                                /\ mood.mood >= mood.prev - 2
          /\ mood.prev < 50 => mood.mood <= 50 /\ mood.mood > mood.prev
                                /\ mood.mood <= mood.prev + 2
          /\ mood.prev = 50 => mood.mood = 50
    /\ mood.decays >= 25 => mood.mood = 50

\* A decay from 0.51 stopped at 0.5.
C25_Witness ==
    /\ mood.last = "natural_decay"
    /\ mood.prev = 51
    /\ mood.mood = 50

(***************************************************************************)
(* Presence                                                                *)
(***************************************************************************)
\* C26: determine_presence(idle, gaze).  Idle below 60000 ms gives
\* PRESENT_ACTIVE whatever the gaze and leaves the absent streak alone;
\* missing gaze data gives UNKNOWN; otherwise the streak grows by one on an
\* absent face and is reset on a detected face, and then, from 300000 ms of
\* idle on, a streak of 30 or more gives ABSENT, else a detected face gives
\* PRESENT_PASSIVE, else UNKNOWN; between 60000 and 300000 ms with gaze
\* data the result is UNKNOWN.
C26_Presence ==
    detector.state # "none" =>
        /\ detector.idle < 60000 =>
              detector.state = "PRESENT_ACTIVE" /\ detector.count = detector.before
        /\ detector.idle >= 60000 /\ detector.gaze = "none" =>
              detector.state = "UNKNOWN"
        /\ detector.idle >= 60000 /\ detector.gaze = "absent" =>
              detector.count = detector.before + 1
        /\ detector.idle >= 60000 /\ detector.gaze = "detected" =>
              detector.count = 0
        /\ detector.idle >= 300000 /\ detector.gaze # "none" =>
              detector.state =
                  IF detector.count >= 30 THEN "ABSENT"
                  ELSE IF detector.gaze = "detected" THEN "PRESENT_PASSIVE"
                  ELSE "UNKNOWN"
        /\ detector.idle >= 60000 /\ detector.idle < 300000
              /\ detector.gaze # "none" =>
              detector.state = "UNKNOWN"

\* The thirtieth observation without a face, after five minutes of idle.
C26_Witness ==
    /\ detector.state = "ABSENT"
    /\ detector.count = 30
    /\ detector.before = 29
    /\ detector.idle = 400000

(***************************************************************************)
(* Resource plan                                                           *)
(***************************************************************************)
\* C27: after any sequence of calls, resolve_plan gives: in fullscreen,
\* camera off and LLM off, with the last-dialog timestamp as it was;
\* otherwise with an active dialog, camera on and LLM on, with the timestamp
\* set to now; otherwise camera on, and LLM on exactly when there is a
\* timestamp and now is no later than 5 minutes past it.  gui_running is
\* always true.
C27_ResolvePlan ==
    scheduler.op = "resolve_plan" =>
        /\ scheduler.plan.gui_running
        /\ scheduler.is_fullscreen =>
              /\ ~scheduler.plan.cv_running
              /\ ~scheduler.plan.llm_running
              /\ scheduler.last = scheduler.before
        /\ ~scheduler.is_fullscreen /\ scheduler.user_dialog_active =>
              /\ scheduler.plan.cv_running
              /\ scheduler.plan.llm_running
              /\ scheduler.last = [has |-> TRUE, at |-> scheduler.now]
        /\ ~scheduler.is_fullscreen /\ ~scheduler.user_dialog_active =>
              /\ scheduler.plan.cv_running
              /\ scheduler.plan.llm_running <=>
                    /\ scheduler.before.has
                    /\ scheduler.now <= scheduler.before.at + 5

\* No dialog, exactly five minutes after the last one: the LLM stays on.
C27_Witness ==
    /\ scheduler.op = "resolve_plan"
    /\ ~scheduler.is_fullscreen
    /\ ~scheduler.user_dialog_active
    /\ scheduler.before.has
    /\ scheduler.now = scheduler.before.at + 5
    /\ scheduler.plan.llm_running

(***************************************************************************)
(* Idle monitor                                                            *)
(***************************************************************************)
\* The signals a period between two resets may hold, in order.
PeriodSignals ==
    {<<>>, <<"user_idle_confirmed">>,
     <<"user_idle_confirmed", "user_active_detected">>}

\* C28: between two reset_to_standby() calls the monitor emits
\* user_idle_confirmed at most once and user_active_detected at most once,
\* the latter only after the former, and nothing after it; also when
\* reset_to_standby() runs while the poll loop is updating the state.
C28_OncePerPeriod == monitor.emitted \in PeriodSignals

\* The same with every reset_to_standby() call made between two rounds of
\* the poll loop.
OncePerPeriodUnraced == ~monitor.raced => monitor.emitted \in PeriodSignals

(***************************************************************************)
(* Director._complete_voice_scripted_entrance                              *)
(***************************************************************************)
\* The last step completed a scripted entrance.
EntranceCompleted ==
    /\ dlast.op \in {"on_voice_trajectory_finished",
                     "on_voice_trajectory_timeout"}
    /\ dlast.traj

\* C29: when a scripted entrance completes, the Director ends hidden rather
\* than engaged: completed in HIDDEN it makes no transition, fires the
\* summon greeting once, leaves the auto-dismiss timer stopped and sets
\* behaviour mode BUSY; completed in PEEKING or ENGAGED it transitions to
\* HIDDEN.
C29_EndsHidden ==
    EntranceCompleted /\ dlast.from \in {"HIDDEN", "PEEKING", "ENGAGED"} =>
        /\ director.state = "HIDDEN"
        /\ dlast.from = "HIDDEN" =>
              /\ director.behavior_mode = "BUSY"
              /\ ~director.auto_dismiss_active
              /\ Len(SelectSeq(director.notes,
                     LAMBDA n : n = "gif_state_mapper.on_summoned")) = 1

(***************************************************************************)
(* Idle invasion                                                           *)
(***************************************************************************)
\* The cells of the live invaders.
InvaderCells ==
    {invasion.particle_cell_map[p] :
        p \in invasion.particles \cap DOMAIN invasion.particle_cell_map}

\* Every live invader has a cell, no two have the same, there are no more
\* of them than grid cells, and _occupied is the set of their cells.
InvadersOnCells ==
    /\ invasion.particles \subseteq DOMAIN invasion.particle_cell_map
    /\ \A p, q \in invasion.particles :
          p # q => invasion.particle_cell_map[p] # invasion.particle_cell_map[q]
    /\ Cardinality(invasion.particles)
          <= invasion.grid_cols * invasion.grid_rows
    /\ invasion.occupied = InvaderCells

\* C30 as stated: no two live invaders share a cell, their number never
\* exceeds max_invaders nor the number of grid cells, and the occupied
\* cells are exactly the cells of the live invaders.
C30_Original ==
    /\ InvadersOnCells
    /\ Cardinality(invasion.particles) <= invasion.max_invaders

\* C30, amended: the number of live invaders never exceeds the max_invaders
\* that was in force when the latest of them was spawned (apply_config can
\* lower max_invaders below the number already live); the rest as stated.
C30_Amended ==
    /\ InvadersOnCells
    /\ Cardinality(invasion.particles) <= invasion.cap_at_spawn

\* Two invaders live on two cells while the reloaded configuration allows
\* one.
C30_Witness ==
    /\ invasion.state \in {"SPAWNING", "SATURATED"}
    /\ Cardinality(invasion.particles) = 2
    /\ Cardinality(invasion.occupied) = 2
    /\ invasion.max_invaders = 1

(***************************************************************************)
(* Exact matches before defaults                                           *)
(***************************************************************************)
\* The exact matches of the last selection that pass its filter: the
\* cooldown and the repeat-avoidance count for select_idle_script only.
EligibleExact ==
    _filter_candidates(Before, exact_matches(sel.source, sel.now), sel.now,
                       IdleSelected, IdleSelected, Cardinality(sel.source))

DefaultIds == {s.id : s \in default_matches(sel.source)}

\* C31: whenever a script with a specific range matches now and passes the
\* cooldown and anti-repeat filter, the selected script is one with a
\* specific range that matches now; a default-range script is selected
\* only when no exact match passes the filter.
C31_ExactFirst ==
    Selected =>
        /\ EligibleExact # {} =>
              sel.result \in {s.id : s \in exact_matches(sel.source, sel.now)}
        /\ sel.result \in DefaultIds => EligibleExact = {}

\* An exact match has been selected although a default entry was
\* available too.
C31_Witness ==
    /\ IdleSelected
    /\ sel.result \in {s.id : s \in exact_matches(sel.source, sel.now)}
    /\ default_matches(sel.source) \cap Available # {}


(***************************************************************************)
(* Repeat avoidance                                                        *)
(***************************************************************************)
\* C32: select_idle_script returns the script it returned the time before
\* only when the source holds no other script that matches the time window
\* and is not cooling down.
C32_NoRepeat ==
    (IdleSelected /\ sel.result # None /\ sel.result = sel.last_script_id)
        => ~\E s \in sel.source : s.id # sel.result /\ s \in Available

\* The previous selection is returned again by a source of more than one
\* script, the others not matching the time window or cooling down.
C32_Witness ==
    /\ IdleSelected
    /\ sel.result # None
    /\ sel.result = sel.last_script_id
    /\ Cardinality(sel.source) > 1

(***************************************************************************)
(* State-changed notifications                                             *)
(***************************************************************************)
\* C33: the state_changed notifications of an operation come in the order
\* of the state changes (each starts from the state the one before it
\* ended in), and when state_changed(old, new) is emitted the FSM is in
\* new; also when flee_completed is raised inside the FLEEING enter
\* callback.
C33_OrderedNotifications ==
    \A i \in 1 .. Len(director.emitted) :
        /\ director.emitted[i].current = director.emitted[i].new
        /\ i > 1 => director.emitted[i].old = director.emitted[i - 1].new
(***************************************************************************)
(* Late audio of an interrupting request                                   *)
(***************************************************************************)
\* C34: when the audio of an interrupting request becomes ready, requests
\* issued after that request are not lost to it: a playback of a later
\* request goes on, and later requests stay in the pending heap.
C34_LaterRequestsKept ==
    [][(obs'.op = "audio_ready" /\ mainQ # <<>> /\ Head(mainQ).interrupt) =>
         /\ (am.playing /\ am.source.order > Head(mainQ).order) =>
               (am'.playing /\ am'.source = am.source)
         /\ \A x \in am.playback_heap :
               x.order > Head(mainQ).order => x \in am'.playback_heap]_vars

\* Entries of the pending heap that carry the current token.
LiveItems(a) == {x \in a.playback_heap : x.token = current_token(a)}

\* C35: a live entry of the pending heap is played without a new request.
\* Entries leave the heap for the player only in _play_next, which runs
\* when the player reports the end of what it plays; so while a live entry
\* waits, the player is playing.
C35_PendingItemsPlayed ==
    LiveItems(am) # {} => am.playing

(***************************************************************************)
(* Superseded commentary sessions                                          *)
(***************************************************************************)
\* C36: a session issues no speak() once cancel_current_session() or a
\* newer comment_on_screen() has advanced the session id: at every speak()
\* of a session, that session is the active one.
C36_NoStaleSpeak ==
    commentator.op = "speak" =>
        commentator.spoke.session_id = commentator.spoke.active

(***************************************************************************)
(* The scripted entrance in progress                                       *)
(***************************************************************************)
\* The step completed a scripted entrance:
\* _complete_voice_scripted_entrance ran.
CompletesEntrance ==
    /\ dlast'.op \in {"on_voice_trajectory_finished",
                      "on_voice_trajectory_timeout"}
    /\ \E i \in 1 .. Len(director'.notes) :
          director'.notes[i] = "gif_state_mapper.on_summoned"

\* C37: while a scripted entrance is in progress the FSM is HIDDEN, and an
\* entrance is completed exactly once: a timeout, or a finished signal of
\* the current player, completes the entrance in progress and ends it; a
\* signal that comes when none is in progress, or from an older player,
\* completes nothing and changes nothing.
C37_EntranceOnce ==
    [][/\ director'.voice_trajectory_playing => director'.state = "HIDDEN"
       /\ dlast'.op \in {"on_voice_trajectory_finished",
                         "on_voice_trajectory_timeout"} =>
             IF director.voice_trajectory_playing /\ dlast'.player = "current"
             THEN CompletesEntrance /\ ~director'.voice_trajectory_playing
             ELSE ~CompletesEntrance /\ director' = CalledOf(director)]_vars

\* The finished signal of the current player completed the entrance in
\* progress, and the FSM went from HIDDEN to ENGAGED.
C37_Witness ==
    /\ dlast.op = "on_voice_trajectory_finished"
    /\ dlast.traj
    /\ dlast.player = "current"
    /\ dlast.from = "HIDDEN"
    /\ ~director.voice_trajectory_playing
    /\ director.state = "ENGAGED"

(***************************************************************************)
(* The auto-dismiss timer                                                  *)
(***************************************************************************)
\* C38: the auto-dismiss timer is armed only while the FSM is in PEEKING or
\* ENGAGED, never in HIDDEN or FLEEING.
C38_TimerOnlyWhenShown ==
    director.auto_dismiss_active => director.state \in {"PEEKING", "ENGAGED"}

\* The idle user was met: the FSM went from HIDDEN to ENGAGED and the
\* timer is armed.
C38_Witness ==
    /\ dlast.op = "on_user_idle"
    /\ dlast.from = "HIDDEN"
    /\ director.state = "ENGAGED"
    /\ director.auto_dismiss_active

(***************************************************************************)
(* PEEKING                                                                 *)
(***************************************************************************)
\* C39: no sequence of Director operations puts the FSM in PEEKING: the
\* FSM is never in PEEKING and no transition to it is announced.
C39_NeverPeeking ==
    /\ director.state # "PEEKING"
    /\ current_state # "PEEKING"
    /\ \A i \in 1 .. Len(director.emitted) : director.emitted[i].new # "PEEKING"

\* A summon without a scripted entrance took the FSM from HIDDEN straight
\* to ENGAGED.
C39_Witness ==
    /\ dlast.op = "summon_now"
    /\ dlast.from = "HIDDEN"
    /\ ~dlast.asset
    /\ director.emitted = <<[old |-> "HIDDEN", new |-> "ENGAGED",
                             current |-> "ENGAGED"]>>

(***************************************************************************)
(* The idle loop                                                           *)
(***************************************************************************)
\* C40: Director and IdleMonitor do not get stuck: once
\* user_active_detected has been handled the monitor is eventually reset to
\* STANDBY, and FLEEING is eventually followed by HIDDEN (flee_completed
\* being delivered in the end).
C40_NotStuck ==
    /\ inbox.owed ~> ~inbox.owed
    /\ (director.state = "FLEEING") ~> (director.state = "HIDDEN")

\* The returning user was noticed while the entity was engaged: the flight
\* runs and the monitor waits in ACTIVE for its reset.
C40_Witness ==
    /\ dlast.op = "on_user_active"
    /\ dlast.from = "ENGAGED"
    /\ director.state = "FLEEING"
    /\ director.flee_running
    /\ monitor.state = "ACTIVE"
    /\ inbox.owed

====
